---- MODULE Spec2Model ----
(***************************************************************************)
(* PDF content streams (pdf/src/content.rs): the operator dispatcher       *)
(* OpBuilder, the inline-image sub-parser, the serializer serialize_ops    *)
(* and the Content aggregate.                                              *)
(*                                                                         *)
(* Bytes are sequences of one-character strings, positions are 0-based     *)
(* byte offsets as in the Rust code (the byte at offset p is data[p+1]).   *)
(* f32 values are modelled by the integers, which f32 represents exactly   *)
(* and which Display writes without a fraction.                            *)
(***************************************************************************)
EXTENDS Integers, Sequences, FiniteSets, TLC

VARIABLES
    input,      \* the operations handed to Content::from_ops
    pc,         \* position of the caller
    round,      \* 1: first from_ops, 2: from_ops on the parsed operations
    sops,       \* serialize_ops: ops (the remaining slice)
    sdata,      \* serialize_ops: data
    scp,        \* serialize_ops: current_point (None is <<>>)
    sadv,       \* serialize_ops: advance of the last loop step
    content,    \* the Content last constructed, or NoContent
    first,      \* the bytes of the part made by the first from_ops
    prim,       \* the primitive made by to_primitive / given to from_primitive
    partIdx,    \* from_primitive: number of array elements taken
    parts,      \* from_primitive: parts
    data,       \* OpBuilder::parse: data
    pos,        \* OpBuilder::parse: lexer position
    buffer,     \* OpBuilder::parse: buffer
    builder,    \* OpBuilder: [last, compability_section, ops]
    pres,       \* OpBuilder::parse: "idle", "run", "Ok" or the error returned
    calls,      \* the calls of OpBuilder::add made so far, with their outcome
    overshoot,  \* lexer: a word cut off by the end of the data leaves the
                \* position one past the data length
    workers     \* FormXObject::from_primitive run by two workers: for each its
                \* data, lexer position, buffer, builder, result and form

vars == <<input, pc, round, sops, sdata, scp, sadv, content, first, prim,
          partIdx, parts, data, pos, buffer, builder, pres, calls, overshoot, workers>>

----------------------------------------------------------------------------
(* Values *)

Point(x, y) == <<x, y>>
None == <<>>

\* Primitive: one record shape for every kind
PInteger(n) == [k |-> "Integer", n |-> n, s |-> <<>>, a |-> <<>>]
PName(s) == [k |-> "Name", n |-> 0, s |-> s, a |-> <<>>]
PString(s) == [k |-> "String", n |-> 0, s |-> s, a |-> <<>>]
PArray(a) == [k |-> "Array", n |-> 0, s |-> <<>>, a |-> a]
PDictionary(a) == [k |-> "Dictionary", n |-> 0, s |-> <<>>, a |-> a]
PBoolean(b) == [k |-> "Boolean", n |-> IF b THEN 1 ELSE 0, s |-> <<>>, a |-> <<>>]
PNull == [k |-> "Null", n |-> 0, s |-> <<>>, a |-> <<>>]
NoPrimitive == [k |-> "None", n |-> 0, s |-> <<>>, a |-> <<>>]

Matrix(a, b, c, d, e, f) == [a |-> a, b |-> b, c |-> c, d |-> d, e |-> e, f |-> f]
Rect(x, y, w, h) == [x |-> x, y |-> y, width |-> w, height |-> h]
Rgb(r, g, b) == [red |-> r, green |-> g, blue |-> b]
Cmyk(c, m, y, k) == [cyan |-> c, magenta |-> m, yellow |-> y, key |-> k]

ColorGray(g) == [c |-> "Gray", g |-> g]
ColorRgb(rgb) == [c |-> "Rgb", rgb |-> rgb]
ColorCmyk(cmyk) == [c |-> "Cmyk", cmyk |-> cmyk]
ColorOther(args) == [c |-> "Other", args |-> args]

\* Op
BeginMarkedContent(tag, properties) == [op |-> "BeginMarkedContent", tag |-> tag, properties |-> properties]
EndMarkedContent == [op |-> "EndMarkedContent"]
MarkedContentPoint(tag, properties) == [op |-> "MarkedContentPoint", tag |-> tag, properties |-> properties]
Close == [op |-> "Close"]
MoveTo(p) == [op |-> "MoveTo", p |-> p]
LineTo(p) == [op |-> "LineTo", p |-> p]
CurveTo(c1, c2, p) == [op |-> "CurveTo", c1 |-> c1, c2 |-> c2, p |-> p]
RectOp(rect) == [op |-> "Rect", rect |-> rect]
EndPath == [op |-> "EndPath"]
Stroke == [op |-> "Stroke"]
FillAndStroke(winding) == [op |-> "FillAndStroke", winding |-> winding]
Fill(winding) == [op |-> "Fill", winding |-> winding]
Shade(name) == [op |-> "Shade", name |-> name]
Clip(winding) == [op |-> "Clip", winding |-> winding]
Save == [op |-> "Save"]
Restore == [op |-> "Restore"]
Transform(matrix) == [op |-> "Transform", matrix |-> matrix]
LineWidth(width) == [op |-> "LineWidth", width |-> width]
Dash(pattern, phase) == [op |-> "Dash", pattern |-> pattern, phase |-> phase]
LineJoin(join) == [op |-> "LineJoin", join |-> join]
LineCap(cap) == [op |-> "LineCap", cap |-> cap]
MiterLimit(limit) == [op |-> "MiterLimit", limit |-> limit]
Flatness(tolerance) == [op |-> "Flatness", tolerance |-> tolerance]
GraphicsState(name) == [op |-> "GraphicsState", name |-> name]
StrokeColor(color) == [op |-> "StrokeColor", color |-> color]
FillColor(color) == [op |-> "FillColor", color |-> color]
FillColorSpace(name) == [op |-> "FillColorSpace", name |-> name]
StrokeColorSpace(name) == [op |-> "StrokeColorSpace", name |-> name]
RenderingIntent(intent) == [op |-> "RenderingIntent", intent |-> intent]
BeginText == [op |-> "BeginText"]
EndText == [op |-> "EndText"]
CharSpacing(char_space) == [op |-> "CharSpacing", char_space |-> char_space]
WordSpacing(word_space) == [op |-> "WordSpacing", word_space |-> word_space]
TextScaling(horiz_scale) == [op |-> "TextScaling", horiz_scale |-> horiz_scale]
Leading(leading) == [op |-> "Leading", leading |-> leading]
TextFont(name, size) == [op |-> "TextFont", name |-> name, size |-> size]
TextRenderMode(mode) == [op |-> "TextRenderMode", mode |-> mode]
TextRise(rise) == [op |-> "TextRise", rise |-> rise]
MoveTextPosition(translation) == [op |-> "MoveTextPosition", translation |-> translation]
SetTextMatrix(matrix) == [op |-> "SetTextMatrix", matrix |-> matrix]
TextNewline == [op |-> "TextNewline"]
TextDraw(text) == [op |-> "TextDraw", text |-> text]
TextDrawAdjusted(array) == [op |-> "TextDrawAdjusted", array |-> array]
XObject(name) == [op |-> "XObject", name |-> name]
InlineImage(image) == [op |-> "InlineImage", image |-> image]

\* the integer codes of the enums (`join as u8`, `cap as u8`, `mode as u8`)
LineJoinCode(join) == CASE join = "Miter" -> 0 [] join = "Round" -> 1 [] join = "Bevel" -> 2
LineCapCode(cap) == CASE cap = "Butt" -> 0 [] cap = "Round" -> 1 [] cap = "Square" -> 2
TextModes == <<"Fill", "Stroke", "FillThenStroke", "Invisible", "FillAndClip", "StrokeAndClip">>
TextModeCode(mode) == CHOOSE i \in 0..5 : TextModes[i + 1] = mode

----------------------------------------------------------------------------
(* Formatting (Display) *)

Digit(d) ==
    CASE d = 0 -> "0" [] d = 1 -> "1" [] d = 2 -> "2" [] d = 3 -> "3" [] d = 4 -> "4"
      [] d = 5 -> "5" [] d = 6 -> "6" [] d = 7 -> "7" [] d = 8 -> "8" [] d = 9 -> "9"

RECURSIVE NatChars(_)
NatChars(n) == IF n < 10 THEN <<Digit(n)>> ELSE Append(NatChars(n \div 10), Digit(n % 10))

\* The numbers of the model are the f32 that hold an integer, written as that
\* integer.  The f32 -0.0, which `-` gives for 0.0, is no integer: it has this
\* value of its own, outside the range of the numbers used.
NegZero == -1000000

\* `-x` on f32
F32Neg(x) == IF x = 0 THEN NegZero ELSE IF x = NegZero THEN 0 ELSE -x

\* `a == b` on f32: -0.0 and 0.0 are equal
F32Eq(a, b) == (IF a = NegZero THEN 0 ELSE a) = (IF b = NegZero THEN 0 ELSE b)

\* == of Option<Point> with a Point, the derived PartialEq over the f32 fields
PointEq(a, b) == b # <<>> /\ F32Eq(a[1], b[1]) /\ F32Eq(a[2], b[2])

\* `{}` of an f32 holding the integer n, or of -0.0
NumChars(n) ==
    IF n = NegZero THEN <<"-", "0">>
    ELSE IF n < 0 THEN <<"-">> \o NatChars(-n)
    ELSE NatChars(n)

PointChars(p) == NumChars(p[1]) \o <<" ">> \o NumChars(p[2])

RectChars(r) ==
    NumChars(r.x) \o <<" ">> \o NumChars(r.y) \o <<" ">> \o NumChars(r.width)
        \o <<" ">> \o NumChars(r.height)

MatrixChars(m) ==
    NumChars(m.a) \o <<" ">> \o NumChars(m.b) \o <<" ">> \o NumChars(m.c) \o <<" ">>
        \o NumChars(m.d) \o <<" ">> \o NumChars(m.e) \o <<" ">> \o NumChars(m.f)

RgbChars(c) == NumChars(c.red) \o <<" ">> \o NumChars(c.green) \o <<" ">> \o NumChars(c.blue)

CmykChars(c) ==
    NumChars(c.cyan) \o <<" ">> \o NumChars(c.magenta) \o <<" ">> \o NumChars(c.yellow)
        \o <<" ">> \o NumChars(c.key)

\* serialize_name: a solidus and the name
NameChars(name) == <<"/">> \o name

\* PdfString::serialize: the literal form
StringChars(text) == <<"(">> \o text \o <<")">>

\* itertools `format(sep)` over numbers
RECURSIVE NumsFormat(_)
NumsFormat(ns) ==
    IF ns = <<>> THEN <<>>
    ELSE IF Len(ns) = 1 THEN NumChars(ns[1])
    ELSE NumChars(ns[1]) \o <<" ">> \o NumsFormat(Tail(ns))

RECURSIVE PrimitiveChars(_)
RECURSIVE PrimitivesFormat(_)
\* Primitive::serialize and Display
PrimitiveChars(p) ==
    CASE p.k = "Integer" -> NumChars(p.n)
      [] p.k = "Name" -> NameChars(p.s)
      [] p.k = "String" -> StringChars(p.s)
      [] p.k = "Array" -> <<"[">> \o PrimitivesFormat(p.a) \o <<"]">>
      [] p.k = "Boolean" -> IF p.n = 1 THEN <<"t", "r", "u", "e">> ELSE <<"f", "a", "l", "s", "e">>
      [] p.k = "Null" -> <<"n", "u", "l", "l">>
      [] p.k = "Dictionary" -> <<"<", "<">> \o PrimitivesFormat(p.a) \o <<">", ">">>

PrimitivesFormat(ps) ==
    IF ps = <<>> THEN <<>>
    ELSE IF Len(ps) = 1 THEN PrimitiveChars(ps[1])
    ELSE PrimitiveChars(ps[1]) \o <<" ">> \o PrimitivesFormat(Tail(ps))

\* `for p in args { p.serialize(f, 0)?; write!(f, " ")?; }`
RECURSIVE ArgsChars(_)
ArgsChars(ps) == IF ps = <<>> THEN <<>> ELSE PrimitiveChars(ps[1]) \o <<" ">> \o ArgsChars(Tail(ps))

----------------------------------------------------------------------------
(* serialize_ops *)

\* what one loop step writes and how many operations it consumes
Step(out, advance) == [out |-> out, advance |-> advance]

\* writeln!(f, "<mnemonic>")
Ln(mnemonic) == Append(mnemonic, "\n")

\* Close written without looking at the operation that follows
SerializeCloseAlone(ops) == Step(Ln(<<"h">>), 1)

SerializeClose(ops) ==
    IF Len(ops) >= 2 /\ ops[2] = Stroke THEN Step(Ln(<<"s">>), 2)
    ELSE IF Len(ops) >= 2 /\ ops[2] = FillAndStroke("NonZero") THEN Step(Ln(<<"b">>), 2)
    ELSE IF Len(ops) >= 2 /\ ops[2] = FillAndStroke("EvenOdd") THEN Step(Ln(<<"b", "*">>), 2)
    ELSE Step(Ln(<<"h">>), 1)

SerializeCurveTo(o, current_point) ==
    IF PointEq(o.c1, current_point)
    THEN Step(PointChars(o.c2) \o <<" ">> \o PointChars(o.p) \o Ln(<<" ", "v">>), 1)
    ELSE IF PointEq(o.c2, o.p)
    THEN Step(PointChars(o.c1) \o <<" ">> \o PointChars(o.p) \o Ln(<<" ", "y">>), 1)
    ELSE Step(PointChars(o.c1) \o <<" ">> \o PointChars(o.c2) \o <<" ">> \o PointChars(o.p)
                  \o Ln(<<" ", "y">>), 1)

SerializeDash(o) ==
    Step(<<"[">> \o NumsFormat(o.pattern) \o <<"]", " ">> \o NumChars(o.phase) \o <<" ", "d">>, 1)

\* WordSpacing written without looking at the operations that follow
SerializeWordSpacingAlone(ops) == Step(NumChars(ops[1].word_space) \o Ln(<<" ", "T", "w">>), 1)

SerializeWordSpacing(ops) ==
    IF Len(ops) >= 4 /\ ops[2].op = "CharSpacing" /\ ops[3].op = "TextNewline"
           /\ ops[4].op = "TextDraw"
    THEN Step(NumChars(ops[1].word_space) \o <<" ">> \o NumChars(ops[2].char_space) \o <<" ">>
                  \o StringChars(ops[4].text) \o Ln(<<" ", "\"">>), 4)
    ELSE Step(NumChars(ops[1].word_space) \o Ln(<<" ", "T", "w">>), 1)

\* the fold deciding on the vertical component
SerializeLeadingByY(ops) ==
    IF Len(ops) >= 2 /\ ops[2].op = "MoveTextPosition"
           /\ F32Eq(ops[1].leading, F32Neg(ops[2].translation[2]))
    THEN Step(NumChars(ops[2].translation[1]) \o <<" ">> \o NumChars(ops[2].translation[2])
                  \o Ln(<<" ", "T", "D">>), 2)
    ELSE Step(NumChars(ops[1].leading) \o Ln(<<" ", "T", "L">>), 1)

SerializeLeading(ops) ==
    IF Len(ops) >= 2 /\ ops[2].op = "MoveTextPosition"
           /\ F32Eq(ops[1].leading, F32Neg(ops[2].translation[1]))
    THEN Step(NumChars(ops[2].translation[1]) \o <<" ">> \o NumChars(ops[2].translation[2])
                  \o Ln(<<" ", "T", "D">>), 2)
    ELSE Step(NumChars(ops[1].leading) \o Ln(<<" ", "T", "L">>), 1)

\* TextNewline written without looking at the operation that follows
SerializeTextNewlineAlone(ops) == Step(Ln(<<"T", "*">>), 1)

SerializeTextNewline(ops) ==
    IF Len(ops) >= 2 /\ ops[2].op = "TextDraw"
    THEN Step(StringChars(ops[2].text) \o Ln(<<" ", "'">>), 2)
    ELSE Step(Ln(<<"T", "*">>), 1)

SerializeColor(color, gray, rgb, cmyk, other) ==
    CASE color.c = "Gray" -> Step(NumChars(color.g) \o <<" ">> \o Ln(gray), 1)
      [] color.c = "Rgb" -> Step(RgbChars(color.rgb) \o <<" ">> \o Ln(rgb), 1)
      [] color.c = "Cmyk" -> Step(CmykChars(color.cmyk) \o <<" ">> \o Ln(cmyk), 1)
      [] color.c = "Other" -> Step(ArgsChars(color.args) \o Ln(other), 1)

\* the match on ops[0] of one loop step; "unimplemented" for an InlineImage
SerializeOp(ops, current_point) ==
    LET o == ops[1]
        t == o.op
    IN  CASE t = "BeginMarkedContent" ->
               IF o.properties # NoPrimitive
               THEN Step(NameChars(o.tag) \o <<" ">> \o PrimitiveChars(o.properties)
                             \o Ln(<<" ", "B", "D", "C">>), 1)
               ELSE Step(NameChars(o.tag) \o Ln(<<" ", "B", "M", "C">>), 1)
          [] t = "MarkedContentPoint" ->
               IF o.properties # NoPrimitive
               THEN Step(NameChars(o.tag) \o <<" ">> \o PrimitiveChars(o.properties)
                             \o Ln(<<" ", "D", "P">>), 1)
               ELSE Step(NameChars(o.tag) \o Ln(<<" ", "M", "P">>), 1)
          [] t = "EndMarkedContent" -> Step(Ln(<<"E", "M", "C">>), 1)
          [] t = "Close" -> SerializeClose(ops)
          [] t = "MoveTo" -> Step(PointChars(o.p) \o Ln(<<" ", "m">>), 1)
          [] t = "LineTo" -> Step(PointChars(o.p) \o Ln(<<" ", "l">>), 1)
          [] t = "CurveTo" -> SerializeCurveTo(o, current_point)
          [] t = "Rect" -> Step(RectChars(o.rect) \o Ln(<<" ", "r", "e">>), 1)
          [] t = "EndPath" -> Step(Ln(<<"n">>), 1)
          [] t = "Stroke" -> Step(Ln(<<"S">>), 1)
          [] t = "FillAndStroke" ->
               IF o.winding = "NonZero" THEN Step(Ln(<<"B">>), 1) ELSE Step(Ln(<<"B", "*">>), 1)
          [] t = "Fill" ->
               IF o.winding = "NonZero" THEN Step(Ln(<<"f">>), 1) ELSE Step(Ln(<<"f", "*">>), 1)
          [] t = "Shade" -> Step(NameChars(o.name) \o Ln(<<" ", "s", "h">>), 1)
          [] t = "Clip" ->
               IF o.winding = "NonZero" THEN Step(Ln(<<"W">>), 1) ELSE Step(Ln(<<"W", "*">>), 1)
          [] t = "Save" -> Step(Ln(<<"q">>), 1)
          [] t = "Restore" -> Step(Ln(<<"Q">>), 1)
          [] t = "Transform" -> Step(MatrixChars(o.matrix) \o Ln(<<" ", "c", "m">>), 1)
          [] t = "LineWidth" -> Step(NumChars(o.width) \o Ln(<<" ", "w">>), 1)
          [] t = "Dash" -> SerializeDash(o)
          [] t = "LineJoin" -> Step(NumChars(LineJoinCode(o.join)) \o Ln(<<" ", "j">>), 1)
          [] t = "LineCap" -> Step(NumChars(LineCapCode(o.cap)) \o Ln(<<" ", "J">>), 1)
          [] t = "MiterLimit" -> Step(NumChars(o.limit) \o Ln(<<" ", "M">>), 1)
          [] t = "Flatness" -> Step(NumChars(o.tolerance) \o Ln(<<" ", "i">>), 1)
          [] t = "GraphicsState" -> Step(NameChars(o.name) \o Ln(<<" ", "g", "s">>), 1)
          [] t = "StrokeColor" ->
               SerializeColor(o.color, <<"G">>, <<"R", "G">>, <<"K">>, <<"S", "C", "N">>)
          [] t = "FillColor" ->
               SerializeColor(o.color, <<"g">>, <<"r", "g">>, <<"k">>, <<"s", "c", "n">>)
          [] t = "FillColorSpace" -> Step(NameChars(o.name) \o Ln(<<" ", "c", "s">>), 1)
          [] t = "StrokeColorSpace" -> Step(NameChars(o.name) \o Ln(<<" ", "C", "S">>), 1)
          [] t = "RenderingIntent" -> Step(o.intent \o Ln(<<" ", "r", "i">>), 1)
          [] t = "BeginText" -> Step(Ln(<<"B", "T">>), 1)
          [] t = "EndText" -> Step(Ln(<<"E", "T">>), 1)
          [] t = "CharSpacing" -> Step(NumChars(o.char_space) \o Ln(<<" ", "T", "c">>), 1)
          [] t = "WordSpacing" -> SerializeWordSpacing(ops)
          [] t = "TextScaling" -> Step(NumChars(o.horiz_scale) \o Ln(<<" ", "T", "z">>), 1)
          [] t = "Leading" -> SerializeLeading(ops)
          [] t = "TextFont" ->
               Step(NameChars(o.name) \o <<" ">> \o NumChars(o.size) \o Ln(<<" ", "T", "f">>), 1)
          [] t = "TextRenderMode" -> Step(NumChars(TextModeCode(o.mode)) \o Ln(<<" ", "T", "r">>), 1)
          [] t = "TextRise" -> Step(NumChars(o.rise) \o Ln(<<" ", "T", "s">>), 1)
          [] t = "MoveTextPosition" ->
               Step(NumChars(o.translation[1]) \o <<" ">> \o NumChars(o.translation[2])
                        \o Ln(<<" ", "T", "d">>), 1)
          [] t = "SetTextMatrix" -> Step(MatrixChars(o.matrix) \o Ln(<<" ", "T", "m">>), 1)
          [] t = "TextNewline" -> SerializeTextNewline(ops)
          [] t = "TextDraw" -> Step(StringChars(o.text) \o Ln(<<" ", "T", "j">>), 1)
          [] t = "TextDrawAdjusted" ->
               Step(<<"[">> \o PrimitivesFormat(o.array) \o <<"]">> \o Ln(<<" ", "T", "J">>), 1)
          [] t = "InlineImage" -> Step(<<>>, 0)
          [] t = "XObject" -> Step(NameChars(o.name) \o Ln(<<" ", "D", "o">>), 1)

\* current_point after the step
NextCurrentPoint(o, current_point) ==
    IF o.op \in {"MoveTo", "LineTo", "CurveTo"} THEN o.p ELSE current_point

\* the slice advanced by one whatever the step consumed
DropOpsOne(ops, n) == Tail(ops)

DropOps(ops, n) == SubSeq(ops, n + 1, Len(ops))

\* the whole loop, from a given current_point
RECURSIVE SerializeFrom(_, _)
SerializeFrom(ops, current_point) ==
    IF ops = <<>> THEN <<>>
    ELSE LET st == SerializeOp(ops, current_point)
         IN  st.out \o SerializeFrom(DropOps(ops, st.advance),
                                     NextCurrentPoint(ops[1], current_point))

serialize_ops(ops) == SerializeFrom(ops, None)

HasInlineImage(ops) == \E i \in 1..Len(ops) : ops[i].op = "InlineImage"

----------------------------------------------------------------------------
(* Lexer and parse_with_lexer (crate::parser), as the content code uses them *)

Whitespace == {" ", "\n"}
Delimiters == {"(", ")", "<", ">", "[", "]", "{", "}", "/", "%"}

IsWhitespace(d, p) == p < Len(d) /\ d[p + 1] \in Whitespace
IsDelimiter(d, p) == p < Len(d) /\ d[p + 1] \in Delimiters
IsRegular(d, p) == p < Len(d) /\ d[p + 1] \notin Whitespace \cup Delimiters

RECURSIVE SkipWhitespace(_, _)
SkipWhitespace(d, p) == IF IsWhitespace(d, p) THEN SkipWhitespace(d, p + 1) ELSE p

RECURSIVE WordEnd(_, _)
WordEnd(d, p) == IF IsRegular(d, p) THEN WordEnd(d, p + 1) ELSE p

\* where the lexer stands after a word that ended at e
AfterWord(d, e, ov) == IF ov /\ e = Len(d) THEN e + 1 ELSE e

\* the end of the word that starts at s
WordEndFrom(d, s) ==
    IF d[s + 1] = "/" THEN WordEnd(d, s + 1)
    ELSE IF d[s + 1] \in {"<", ">"} /\ s + 1 < Len(d) /\ d[s + 2] = d[s + 1] THEN s + 2
    ELSE IF IsDelimiter(d, s) THEN s + 1
    ELSE WordEnd(d, s)

Word(d, s, e, ov) ==
    [eof |-> FALSE, word |-> SubSeq(d, s + 1, e),
     pos |-> IF IsRegular(d, s) \/ d[s + 1] = "/" THEN AfterWord(d, e, ov) ELSE e]

WordFrom(d, s, ov) ==
    IF s >= Len(d) THEN [eof |-> TRUE, word |-> <<>>, pos |-> s]
    ELSE Word(d, s, WordEndFrom(d, s), ov)

\* Lexer::next from position p: the word and the position after it
NextWord(d, p, ov) == WordFrom(d, SkipWhitespace(d, p), ov)

\* the word as a string, to compare with the mnemonics
RECURSIVE Str(_)
Str(w) == IF w = <<>> THEN "" ELSE Head(w) \o Str(Tail(w))

DigitValue(c) ==
    CASE c = "0" -> 0 [] c = "1" -> 1 [] c = "2" -> 2 [] c = "3" -> 3 [] c = "4" -> 4
      [] c = "5" -> 5 [] c = "6" -> 6 [] c = "7" -> 7 [] c = "8" -> 8 [] c = "9" -> 9

DigitChars == {"0", "1", "2", "3", "4", "5", "6", "7", "8", "9"}

IsNat(w) == w # <<>> /\ \A i \in 1..Len(w) : w[i] \in DigitChars
IsInteger(w) == w # <<>> /\ IF w[1] \in {"-", "+"} THEN IsNat(Tail(w)) ELSE IsNat(w)

RECURSIVE NatValue(_)
NatValue(w) == IF w = <<>> THEN 0 ELSE 10 * NatValue(SubSeq(w, 1, Len(w) - 1)) + DigitValue(w[Len(w)])

IntegerValue(w) ==
    IF w[1] = "-" THEN -NatValue(Tail(w)) ELSE IF w[1] = "+" THEN NatValue(Tail(w)) ELSE NatValue(w)

\* the offset of the first c at or after p, or Len(d) when there is none
RECURSIVE Find(_, _, _)
Find(d, p, c) == IF p >= Len(d) \/ d[p + 1] = c THEN p ELSE Find(d, p + 1, c)

Parsed(st, val, p) == [st |-> st, val |-> val, pos |-> p]

\* a literal string whose text starts at p and whose closing parenthesis is at e
ParseString(d, p, e, back) ==
    IF e >= Len(d) THEN Parsed("eof", NoPrimitive, back)
    ELSE Parsed("ok", PString(SubSeq(d, p + 1, e)), e + 1)

RECURSIVE ParseObject(_, _, _)
RECURSIVE ParseItems(_, _, _, _, _)

\* the object that starts with the word w (t as a string), read from p
ParseWord(d, p, ov, w, t) ==
    IF w.eof THEN Parsed("eof", NoPrimitive, p)
    ELSE IF t = "[" THEN ParseItems(d, w.pos, ov, <<>>, "]")
    ELSE IF t = "<<" THEN ParseItems(d, w.pos, ov, <<>>, ">>")
    ELSE IF t = "(" THEN ParseString(d, w.pos, Find(d, w.pos, ")"), p)
    ELSE IF w.word[1] = "/" THEN Parsed("ok", PName(Tail(w.word)), w.pos)
    ELSE IF IsInteger(w.word) THEN Parsed("ok", PInteger(IntegerValue(w.word)), w.pos)
    ELSE IF t = "true" THEN Parsed("ok", PBoolean(TRUE), w.pos)
    ELSE IF t = "false" THEN Parsed("ok", PBoolean(FALSE), w.pos)
    ELSE IF t = "null" THEN Parsed("ok", PNull, w.pos)
    ELSE Parsed("err", NoPrimitive, p)

\* parse_with_lexer: st is "ok" (val, pos), "eof" or "err"
ParseObject(d, p, ov) == ParseWord(d, p, ov, NextWord(d, p, ov), Str(NextWord(d, p, ov).word))

ParseItem(d, ov, acc, closing, o) ==
    IF o.st # "ok" THEN o ELSE ParseItems(d, o.pos, ov, Append(acc, o.val), closing)

ParseItemsAt(d, p, ov, acc, closing, w) ==
    IF w.eof THEN Parsed("eof", NoPrimitive, p)
    ELSE IF Str(w.word) = closing
    THEN Parsed("ok", IF closing = "]" THEN PArray(acc) ELSE PDictionary(acc), w.pos)
    ELSE ParseItem(d, ov, acc, closing, ParseObject(d, p, ov))

\* the elements of an array or a dictionary up to its closing word
ParseItems(d, p, ov, acc, closing) == ParseItemsAt(d, p, ov, acc, closing, NextWord(d, p, ov))

----------------------------------------------------------------------------
(* inline_image *)

\* expand_abbr_name: the first pair of alt whose abbreviation is the name
ExpandAbbrName(name, alt) ==
    IF \E i \in 1..Len(alt) : alt[i][1] = name
    THEN alt[CHOOSE i \in 1..Len(alt) : alt[i][1] = name /\ \A j \in 1..(i - 1) : alt[j][1] # name][2]
    ELSE name

RECURSIVE ExpandAbbr(_, _)
ExpandAbbr(p, alt) ==
    CASE p.k = "Name" -> PName(ExpandAbbrName(p.s, alt))
      [] p.k = "Array" -> PArray([i \in 1..Len(p.a) |-> ExpandAbbr(p.a[i], alt)])
      [] OTHER -> p

KeyAbbr ==
    <<<<"BPC", "BitsPerComponent">>, <<"CS", "ColorSpace">>, <<"D", "Decode">>,
      <<"DP", "DecodeParms">>, <<"F", "Filter">>, <<"H", "Height">>, <<"IM", "ImageMask">>,
      <<"I", "Interpolate">>, <<"W", "Width">>>>

ColorSpaceAbbr ==
    <<<<<<"G">>, <<"D", "e", "v", "i", "c", "e", "G", "r", "a", "y">>>>,
      <<<<"R", "G", "B">>, <<"D", "e", "v", "i", "c", "e", "R", "G", "B">>>>,
      <<<<"C", "M", "Y", "K">>, <<"D", "e", "v", "i", "c", "e", "C", "M", "Y", "K">>>>,
      <<<<"I">>, <<"I", "n", "d", "e", "x", "e", "d">>>>>>

FilterAbbr ==
    <<<<<<"A", "H", "x">>, <<"A", "S", "C", "I", "I", "H", "e", "x", "D", "e", "c", "o", "d", "e">>>>,
      <<<<"A", "8", "5">>, <<"A", "S", "C", "I", "I", "8", "5", "D", "e", "c", "o", "d", "e">>>>,
      <<<<"L", "Z", "W">>, <<"L", "Z", "W", "D", "e", "c", "o", "d", "e">>>>,
      <<<<"F", "l">>, <<"F", "l", "a", "t", "e", "D", "e", "c", "o", "d", "e">>>>,
      <<<<"R", "L">>, <<"R", "u", "n", "L", "e", "n", "g", "t", "h", "D", "e", "c", "o", "d", "e">>>>,
      <<<<"C", "C", "F">>, <<"C", "C", "I", "T", "T", "F", "a", "x", "D", "e", "c", "o", "d", "e">>>>,
      <<<<"D", "C", "T">>, <<"D", "C", "T", "D", "e", "c", "o", "d", "e">>>>>>

\* the filter kinds StreamFilter::from_kind_and_params knows
FilterKinds ==
    {"ASCIIHexDecode", "ASCII85Decode", "LZWDecode", "FlateDecode", "RunLengthDecode",
     "CCITTFaxDecode", "DCTDecode", "JPXDecode", "Crypt"}

EmptyDict == [x \in {} |-> NoPrimitive]
DictInsert(dict, key, val) == [x \in DOMAIN dict \cup {key} |-> IF x = key THEN val ELSE dict[x]]

MissingEntry(field) == "MissingEntry(" \o field \o ")"

ImageLoop(res, dict, p) == [res |-> res, dict |-> dict, pos |-> p]

RECURSIVE ImageKeys(_, _, _, _)

\* the value of the key obj
ImageValue(d, ov, dict, obj, val) ==
    IF val.st = "eof" THEN ImageLoop("EOF", dict, obj.pos)
    ELSE IF val.st = "err" THEN ImageLoop("ParseError", dict, obj.pos)
    ELSE ImageKeys(d, val.pos, ov,
                   DictInsert(dict, ExpandAbbrName(Str(obj.val.s), KeyAbbr), val.val))

\* the loop left at the word that is no object with the lexer past that word
ImageKeyNotRestored(d, p, ov, dict, obj) ==
    IF obj.st = "eof" THEN ImageLoop("EOF", dict, p)
    ELSE IF obj.st = "err" THEN ImageLoop("Ok", dict, NextWord(d, p, ov).pos)
    ELSE IF obj.val.k # "Name" THEN ImageLoop("Other", dict, obj.pos)
    ELSE ImageValue(d, ov, dict, obj, ParseObject(d, obj.pos, ov))

\* one turn of the loop, obj being what was parsed at p
ImageKey(d, p, ov, dict, obj) ==
    IF obj.st = "eof" THEN ImageLoop("EOF", dict, p)
    ELSE IF obj.st = "err" THEN ImageLoop("Ok", dict, p)
    ELSE IF obj.val.k # "Name" THEN ImageLoop("Other", dict, obj.pos)
    ELSE ImageValue(d, ov, dict, obj, ParseObject(d, obj.pos, ov))

\* the key/value loop: res is "Ok" with the dictionary and the position after it
ImageKeys(d, p, ov, dict) == ImageKey(d, p, ov, dict, ParseObject(d, p, ov))

\* the offset of the first "\nEI" at or after p, or Len(d) when there is none
RECURSIVE SeekEI(_, _)
SeekEI(d, p) ==
    IF p + 3 > Len(d) THEN Len(d)
    ELSE IF d[p + 1] = "\n" /\ d[p + 2] = "E" /\ d[p + 3] = "I" THEN p
    ELSE SeekEI(d, p + 1)

FilterNames(filter) == IF filter.k = "Array" THEN filter.a ELSE <<filter>>

Has(dict, key) == key \in DOMAIN dict

\* a Filter of any type taken for a filter chain
ImageFiltersAny(filter) == "Ok"

\* as_name and from_kind_and_params on one element: "Ok" or the error
FilterError(p) ==
    IF p.k # "Name" THEN "UnexpectedPrimitive"
    ELSE IF Str(p.s) \notin FilterKinds THEN "Other"
    ELSE "Ok"

\* the filter chain of the (expanded) value of Filter: "Ok" or the error of
\* the first element that fails, the elements being taken in order
ImageFilters(filter) ==
    IF filter.k \notin {"Array", "Name"} THEN "Other"
    ELSE IF \A i \in 1..Len(FilterNames(filter)) : FilterError(FilterNames(filter)[i]) = "Ok"
    THEN "Ok"
    ELSE FilterError(FilterNames(filter)[
             CHOOSE i \in 1..Len(FilterNames(filter)) :
                 /\ FilterError(FilterNames(filter)[i]) # "Ok"
                 /\ \A j \in 1..(i - 1) : FilterError(FilterNames(filter)[j]) = "Ok"])

\* height, image_mask, intent, interpolate, width
ImageFieldsRest(dict) ==
    IF ~Has(dict, "Height") THEN MissingEntry("Height")
    ELSE IF dict["Height"].k # "Integer" THEN "UnexpectedPrimitive"
    ELSE IF Has(dict, "ImageMask") /\ dict["ImageMask"].k # "Boolean" THEN "UnexpectedPrimitive"
    ELSE IF Has(dict, "Intent") /\ dict["Intent"].k # "Name" THEN "UnexpectedPrimitive"
    ELSE IF Has(dict, "Interpolate") /\ dict["Interpolate"].k # "Boolean" THEN "UnexpectedPrimitive"
    ELSE IF ~Has(dict, "Width") THEN MissingEntry("Width")
    ELSE IF dict["Width"].k # "Integer" THEN "UnexpectedPrimitive"
    ELSE "Ok"

\* the fields read from the dictionary, in the order of the code: the error of the
\* first that fails, or "Ok"
ImageFields(dict) ==
    IF ~Has(dict, "BitsPerComponent") THEN MissingEntry("BitsPerComponent")
    ELSE IF dict["BitsPerComponent"].k # "Integer" THEN "UnexpectedPrimitive"
    ELSE IF ~Has(dict, "ColorSpace") THEN MissingEntry("ColorSpace")
    ELSE IF ~Has(dict, "Decode") THEN MissingEntry("Decode")
    ELSE IF dict["Decode"].k \notin {"Array", "Null"} THEN "UnexpectedPrimitive"
    ELSE IF ~Has(dict, "DecodeParms") THEN MissingEntry("DecodeParms")
    ELSE IF dict["DecodeParms"].k # "Dictionary" THEN "UnexpectedPrimitive"
    ELSE IF ~Has(dict, "Filter") THEN MissingEntry("Filter")
    ELSE IF ImageFilters(ExpandAbbr(dict["Filter"], FilterAbbr)) # "Ok"
    THEN ImageFilters(ExpandAbbr(dict["Filter"], FilterAbbr))
    ELSE ImageFieldsRest(dict)

NoImage == [width |-> 0, height |-> 0, bits_per_component |-> 0, color_space |-> NoPrimitive,
            image_mask |-> FALSE, interpolate |-> FALSE, intent |-> NoPrimitive,
            decode |-> NoPrimitive, filters |-> <<>>, data |-> <<>>]

FilterChain(filter) == [i \in 1..Len(filter) |-> Str(filter[i].s)]

ImageDict(dict, payload) ==
    [width |-> dict["Width"].n,
     height |-> dict["Height"].n,
     bits_per_component |-> dict["BitsPerComponent"].n,
     color_space |-> ExpandAbbr(dict["ColorSpace"], ColorSpaceAbbr),
     image_mask |-> IF Has(dict, "ImageMask") THEN dict["ImageMask"].n = 1 ELSE FALSE,
     interpolate |-> IF Has(dict, "Interpolate") THEN dict["Interpolate"].n = 1 ELSE FALSE,
     intent |-> IF Has(dict, "Intent") THEN dict["Intent"] ELSE NoPrimitive,
     decode |-> dict["Decode"],
     filters |-> FilterChain(FilterNames(ExpandAbbr(dict["Filter"], FilterAbbr))),
     data |-> payload]

ImageResult(res, image, p) == [res |-> res, image |-> image, pos |-> p]

\* inline_image with the lexer at p: res "Ok" with the image and the position after
\* EI, an error, or "Panic" (the expect on seek_substr, the slice of the payload)
\* the payload d[data_start..data_end), the marker found at ei
\* the payload taken from the byte that follows ID
ImagePayloadFromID(d, dict, data_start, ei, data_end) ==
    IF ei >= Len(d) THEN ImageResult("Panic", NoImage, data_start - 1)
    ELSE IF data_start > data_end THEN ImageResult("Panic", NoImage, ei + 3)
    ELSE ImageResult("Ok", ImageDict(dict, SubSeq(d, data_start, data_end)), ei + 3)

ImagePayload(d, dict, data_start, ei, data_end) ==
    IF ei >= Len(d) THEN ImageResult("Panic", NoImage, data_start - 1)
    ELSE IF data_start > data_end THEN ImageResult("Panic", NoImage, ei + 3)
    ELSE ImageResult("Ok", ImageDict(dict, SubSeq(d, data_start + 1, data_end)), ei + 3)

\* after the loop: the word id must be ID, then the fields, then the payload
ImageAfterKeys(d, loop, id, fields) ==
    IF loop.res # "Ok" THEN ImageResult(loop.res, NoImage, loop.pos)
    ELSE IF id.eof THEN ImageResult("EOF", NoImage, loop.pos)
    ELSE IF Str(id.word) # "ID" THEN ImageResult("UnexpectedLexeme", NoImage, id.pos)
    ELSE IF fields # "Ok" THEN ImageResult(fields, NoImage, id.pos)
    ELSE ImagePayload(d, loop.dict, id.pos + 1, SeekEI(d, id.pos), (SeekEI(d, id.pos) + 3) - 3)

ImageFrom(d, ov, loop) ==
    ImageAfterKeys(d, loop, NextWord(d, loop.pos, ov), ImageFields(loop.dict))

\* inline_image with the lexer at p: res "Ok" with the image and the position after
\* EI, an error, or "Panic" (the expect on seek_substr, the slice of the payload)
inline_image(d, p, ov) == ImageFrom(d, ov, ImageKeys(d, p, ov, EmptyDict))

----------------------------------------------------------------------------
(* OpBuilder *)

\* OpBuilder::new
NewBuilder == [last |-> Point(0, 0), compability_section |-> FALSE, ops |-> <<>>]

\* as_number, as_integer, into_name, into_string, as_array on an operand
Accepts(kind, p) ==
    CASE kind = "number" -> p.k = "Integer"
      [] kind = "integer" -> p.k = "Integer"
      [] kind = "name" -> p.k = "Name"
      [] kind = "string" -> p.k = "String"
      [] kind = "array" -> p.k = "Array"
      [] kind = "as_array" -> p.k = "Array"
      [] kind = "any" -> TRUE

\* name, number, string, point, rect, rgb, cmyk, matrix, array taken from the
\* operands in turn: the error of the first that fails, or "Ok".  The helper
\* `array` answers NoOpArg for an operand that is no array as well.
TakeArgs(args, sig) ==
    LET bad == {i \in 1..Len(sig) : i > Len(args) \/ ~Accepts(sig[i], args[i])}
        i == CHOOSE x \in bad : \A y \in bad : x <= y
    IN  IF bad = {} THEN "Ok"
        ELSE IF i > Len(args) \/ sig[i] = "array" THEN "NoOpArg"
        ELSE "UnexpectedPrimitive"

N1 == <<"number">>
N2 == <<"number", "number">>
N3 == <<"number", "number", "number">>
N4 == <<"number", "number", "number", "number">>
N6 == <<"number", "number", "number", "number", "number", "number">>

Added(res, b, p) == [res |-> res, b |-> b, pos |-> p]
Push(b, new) == [b EXCEPT !.ops = @ \o new]

\* an operator that takes the operands of sig and pushes the operations new
Emit(b, args, sig, new, p) ==
    IF TakeArgs(args, sig) = "Ok" THEN Added("Ok", Push(b, new), p)
    ELSE Added(TakeArgs(args, sig), b, p)

ArgPoint(args, i) == Point(args[i].n, args[i + 1].n)

AddCurve(b, args, p) ==
    LET c1 == ArgPoint(args, 1)
        c2 == ArgPoint(args, 3)
        pt == ArgPoint(args, 5)
    IN  IF TakeArgs(args, N6) # "Ok" THEN Added(TakeArgs(args, N6), b, p)
        ELSE Added("Ok", [Push(b, <<CurveTo(c1, c2, pt)>>) EXCEPT !.last = pt], p)

\* v taking the origin, not the last point, as the first control point
AddCurveVFromOrigin(b, args, p) ==
    IF TakeArgs(args, N4) # "Ok" THEN Added(TakeArgs(args, N4), b, p)
    ELSE Added("Ok", [Push(b, <<CurveTo(Point(0, 0), ArgPoint(args, 1), ArgPoint(args, 3))>>)
                          EXCEPT !.last = ArgPoint(args, 3)], p)

AddCurveV(b, args, p) ==
    LET c2 == ArgPoint(args, 1)
        pt == ArgPoint(args, 3)
    IN  IF TakeArgs(args, N4) # "Ok" THEN Added(TakeArgs(args, N4), b, p)
        ELSE Added("Ok", [Push(b, <<CurveTo(b.last, c2, pt)>>) EXCEPT !.last = pt], p)

AddCurveY(b, args, p) ==
    LET c1 == ArgPoint(args, 1)
        pt == ArgPoint(args, 3)
    IN  IF TakeArgs(args, N4) # "Ok" THEN Added(TakeArgs(args, N4), b, p)
        ELSE Added("Ok", [Push(b, <<CurveTo(c1, pt, pt)>>) EXCEPT !.last = pt], p)

AddLine(b, args, p) ==
    IF TakeArgs(args, N2) # "Ok" THEN Added(TakeArgs(args, N2), b, p)
    ELSE Added("Ok", [Push(b, <<LineTo(ArgPoint(args, 1))>>) EXCEPT !.last = ArgPoint(args, 1)], p)

AddMove(b, args, p) ==
    IF TakeArgs(args, N2) # "Ok" THEN Added(TakeArgs(args, N2), b, p)
    ELSE Added("Ok", [Push(b, <<MoveTo(ArgPoint(args, 1))>>) EXCEPT !.last = ArgPoint(args, 1)], p)

AddDash(b, args, p) ==
    IF Len(args) < 1 THEN Added("NoOpArg", b, p)
    ELSE IF args[1].k # "Array" THEN Added("UnexpectedPrimitive", b, p)
    ELSE IF \E i \in 1..Len(args[1].a) : ~Accepts("number", args[1].a[i])
    THEN Added("UnexpectedPrimitive", b, p)
    ELSE IF Len(args) < 2 THEN Added("NoOpArg", b, p)
    ELSE IF ~Accepts("number", args[2]) THEN Added("UnexpectedPrimitive", b, p)
    ELSE Added("Ok", Push(b, <<Dash([i \in 1..Len(args[1].a) |-> args[1].a[i].n], args[2].n)>>), p)

\* j taking any other code for Miter
AddLineJoinDefault(b, args, p) ==
    IF TakeArgs(args, <<"integer">>) # "Ok" THEN Added(TakeArgs(args, <<"integer">>), b, p)
    ELSE CASE args[1].n = 1 -> Added("Ok", Push(b, <<LineJoin("Round")>>), p)
           [] args[1].n = 2 -> Added("Ok", Push(b, <<LineJoin("Bevel")>>), p)
           [] OTHER -> Added("Ok", Push(b, <<LineJoin("Miter")>>), p)

AddLineJoin(b, args, p) ==
    IF TakeArgs(args, <<"integer">>) # "Ok" THEN Added(TakeArgs(args, <<"integer">>), b, p)
    ELSE CASE args[1].n = 0 -> Added("Ok", Push(b, <<LineJoin("Miter")>>), p)
           [] args[1].n = 1 -> Added("Ok", Push(b, <<LineJoin("Round")>>), p)
           [] args[1].n = 2 -> Added("Ok", Push(b, <<LineJoin("Bevel")>>), p)
           [] OTHER -> Added("Other", b, p)

AddLineCap(b, args, p) ==
    IF TakeArgs(args, <<"integer">>) # "Ok" THEN Added(TakeArgs(args, <<"integer">>), b, p)
    ELSE CASE args[1].n = 0 -> Added("Ok", Push(b, <<LineCap("Butt")>>), p)
           [] args[1].n = 1 -> Added("Ok", Push(b, <<LineCap("Round")>>), p)
           [] args[1].n = 2 -> Added("Ok", Push(b, <<LineCap("Square")>>), p)
           [] OTHER -> Added("Other", b, p)

AddTextRenderMode(b, args, p) ==
    IF TakeArgs(args, <<"integer">>) # "Ok" THEN Added(TakeArgs(args, <<"integer">>), b, p)
    ELSE IF args[1].n \in 0..5 THEN Added("Ok", Push(b, <<TextRenderMode(TextModes[args[1].n + 1])>>), p)
    ELSE Added("Other", b, p)

\* the names RenderingIntent::from_str knows
RenderingIntents == {"AbsoluteColorimetric", "RelativeColorimetric", "Perceptual", "Saturation"}

AddRenderingIntent(b, args, p) ==
    IF TakeArgs(args, <<"name">>) # "Ok" THEN Added(TakeArgs(args, <<"name">>), b, p)
    ELSE IF Str(args[1].s) \in RenderingIntents THEN Added("Ok", Push(b, <<RenderingIntent(args[1].s)>>), p)
    ELSE Added("Other", b, p)

AddShade(b, args, p) == Added("Ok", b, p)

AddTD(b, args, p) ==
    IF TakeArgs(args, N2) # "Ok" THEN Added(TakeArgs(args, N2), b, p)
    ELSE Added("Ok", Push(b, <<Leading(F32Neg(args[2].n)), MoveTextPosition(ArgPoint(args, 1))>>), p)

\* ': TextNewline is pushed before the string is taken
AddQuote(b, args, p) ==
    IF TakeArgs(args, <<"string">>) # "Ok"
    THEN Added(TakeArgs(args, <<"string">>), Push(b, <<TextNewline>>), p)
    ELSE Added("Ok", Push(b, <<TextNewline, TextDraw(args[1].s)>>), p)

\* ": each operation is pushed as soon as its operand is taken
AddDoubleQuote(b, args, p) ==
    IF TakeArgs(args, N1) # "Ok" THEN Added(TakeArgs(args, N1), b, p)
    ELSE IF TakeArgs(args, N2) # "Ok"
    THEN Added(TakeArgs(args, N2), Push(b, <<WordSpacing(args[1].n)>>), p)
    ELSE IF TakeArgs(args, <<"number", "number", "string">>) # "Ok"
    THEN Added(TakeArgs(args, <<"number", "number", "string">>),
               Push(b, <<WordSpacing(args[1].n), CharSpacing(args[2].n), TextNewline>>), p)
    ELSE Added("Ok", Push(b, <<WordSpacing(args[1].n), CharSpacing(args[2].n), TextNewline,
                               TextDraw(args[3].s)>>), p)

AddImage(b, r) ==
    IF r.res = "Ok" THEN Added("Ok", Push(b, <<InlineImage(r.image)>>), r.pos)
    ELSE Added(r.res, b, r.pos)

AddInlineImage(b, d, p, ov) == AddImage(b, inline_image(d, p, ov))

\* ID and EI handled like an operator that is not in the table
AddFramingInSection(b, p) == IF ~b.compability_section THEN Added("Other", b, p) ELSE Added("Ok", b, p)

\* ID, EI: bail!
AddFraming(b, p) == Added("Other", b, p)

\* the fallthrough arm without the guard on the flag
AddUnknownIgnored(b, p) == Added("Ok", b, p)

\* an operator that is not in the table
AddUnknown(b, p) == IF ~b.compability_section THEN Added("Other", b, p) ELSE Added("Ok", b, p)

\* the mnemonics OpBuilder::add has an arm for
Mnemonics ==
    {"b", "B", "b*", "B*", "BDC", "BI", "BMC", "BT", "BX", "c", "cm", "CS", "cs", "d", "d0",
     "d1", "Do", "DP", "EI", "EMC", "ET", "EX", "f", "F", "f*", "G", "g", "gs", "h", "i", "ID",
     "j", "J", "K", "k", "l", "m", "M", "MP", "n", "q", "Q", "re", "RG", "rg", "ri", "s", "S",
     "SC", "SCN", "sc", "scn", "sh", "T*", "Tc", "Td", "TD", "Tf", "Tj", "TJ", "TL", "Tm", "Tr",
     "Ts", "Tw", "Tz", "v", "w", "W", "W*", "y", "'", "\""}

\* OpBuilder::add: op dispatched with the operands args, the lexer of d standing at p
Add(b, op, args, d, p, ov) ==
    CASE op = "b" -> Emit(b, args, <<>>, <<Close, FillAndStroke("NonZero")>>, p)
      [] op = "B" -> Emit(b, args, <<>>, <<FillAndStroke("NonZero")>>, p)
      [] op = "b*" -> Emit(b, args, <<>>, <<Close, FillAndStroke("EvenOdd")>>, p)
      [] op = "B*" -> Emit(b, args, <<>>, <<FillAndStroke("EvenOdd")>>, p)
      [] op = "BDC" -> Emit(b, args, <<"name", "any">>, <<BeginMarkedContent(args[1].s, args[2])>>, p)
      [] op = "BI" -> AddInlineImage(b, d, p, ov)
      [] op = "BMC" -> Emit(b, args, <<"name">>, <<BeginMarkedContent(args[1].s, NoPrimitive)>>, p)
      [] op = "BT" -> Emit(b, args, <<>>, <<BeginText>>, p)
      [] op = "BX" -> Added("Ok", [b EXCEPT !.compability_section = TRUE], p)
      [] op = "c" -> AddCurve(b, args, p)
      [] op = "cm" ->
           Emit(b, args, N6, <<Transform(Matrix(args[1].n, args[2].n, args[3].n, args[4].n,
                                                args[5].n, args[6].n))>>, p)
      [] op = "CS" -> Emit(b, args, <<"name">>, <<StrokeColorSpace(args[1].s)>>, p)
      [] op = "cs" -> Emit(b, args, <<"name">>, <<FillColorSpace(args[1].s)>>, p)
      [] op = "d" -> AddDash(b, args, p)
      [] op = "d0" -> Added("Ok", b, p)
      [] op = "d1" -> Added("Ok", b, p)
      [] op = "Do" -> Emit(b, args, <<"name">>, <<XObject(args[1].s)>>, p)
      [] op = "DP" -> Emit(b, args, <<"name", "any">>, <<MarkedContentPoint(args[1].s, args[2])>>, p)
      [] op = "EI" -> AddFraming(b, p)
      [] op = "EMC" -> Emit(b, args, <<>>, <<EndMarkedContent>>, p)
      [] op = "ET" -> Emit(b, args, <<>>, <<EndText>>, p)
      [] op = "EX" -> Added("Ok", [b EXCEPT !.compability_section = FALSE], p)
      [] op \in {"f", "F"} -> Emit(b, args, <<>>, <<Fill("NonZero")>>, p)
      [] op = "f*" -> Emit(b, args, <<>>, <<Fill("EvenOdd")>>, p)
      [] op = "G" -> Emit(b, args, N1, <<StrokeColor(ColorGray(args[1].n))>>, p)
      [] op = "g" -> Emit(b, args, N1, <<FillColor(ColorGray(args[1].n))>>, p)
      [] op = "gs" -> Emit(b, args, <<"name">>, <<GraphicsState(args[1].s)>>, p)
      [] op = "h" -> Emit(b, args, <<>>, <<Close>>, p)
      [] op = "i" -> Emit(b, args, N1, <<Flatness(args[1].n)>>, p)
      [] op = "ID" -> AddFraming(b, p)
      [] op = "j" -> AddLineJoin(b, args, p)
      [] op = "J" -> AddLineCap(b, args, p)
      [] op = "K" ->
           Emit(b, args, N4, <<StrokeColor(ColorCmyk(Cmyk(args[1].n, args[2].n, args[3].n, args[4].n)))>>, p)
      [] op = "k" ->
           Emit(b, args, N4, <<FillColor(ColorCmyk(Cmyk(args[1].n, args[2].n, args[3].n, args[4].n)))>>, p)
      [] op = "l" -> AddLine(b, args, p)
      [] op = "m" -> AddMove(b, args, p)
      [] op = "M" -> Emit(b, args, N1, <<MiterLimit(args[1].n)>>, p)
      [] op = "MP" -> Emit(b, args, <<"name">>, <<MarkedContentPoint(args[1].s, NoPrimitive)>>, p)
      [] op = "n" -> Emit(b, args, <<>>, <<EndPath>>, p)
      [] op = "q" -> Emit(b, args, <<>>, <<Save>>, p)
      [] op = "Q" -> Emit(b, args, <<>>, <<Restore>>, p)
      [] op = "re" ->
           Emit(b, args, N4, <<RectOp(Rect(args[1].n, args[2].n, args[3].n, args[4].n))>>, p)
      [] op = "RG" -> Emit(b, args, N3, <<StrokeColor(ColorRgb(Rgb(args[1].n, args[2].n, args[3].n)))>>, p)
      [] op = "rg" -> Emit(b, args, N3, <<FillColor(ColorRgb(Rgb(args[1].n, args[2].n, args[3].n)))>>, p)
      [] op = "ri" -> AddRenderingIntent(b, args, p)
      [] op = "s" -> Emit(b, args, <<>>, <<Close, Stroke>>, p)
      [] op = "S" -> Emit(b, args, <<>>, <<Stroke>>, p)
      [] op \in {"SC", "SCN"} -> Emit(b, args, <<>>, <<StrokeColor(ColorOther(args))>>, p)
      [] op \in {"sc", "scn"} -> Emit(b, args, <<>>, <<FillColor(ColorOther(args))>>, p)
      [] op = "sh" -> AddShade(b, args, p)
      [] op = "T*" -> Emit(b, args, <<>>, <<TextNewline>>, p)
      [] op = "Tc" -> Emit(b, args, N1, <<CharSpacing(args[1].n)>>, p)
      [] op = "Td" -> Emit(b, args, N2, <<MoveTextPosition(ArgPoint(args, 1))>>, p)
      [] op = "TD" -> AddTD(b, args, p)
      [] op = "Tf" -> Emit(b, args, <<"name", "number">>, <<TextFont(args[1].s, args[2].n)>>, p)
      [] op = "Tj" -> Emit(b, args, <<"string">>, <<TextDraw(args[1].s)>>, p)
      [] op = "TJ" -> Emit(b, args, <<"array">>, <<TextDrawAdjusted(args[1].a)>>, p)
      [] op = "TL" -> Emit(b, args, N1, <<Leading(args[1].n)>>, p)
      [] op = "Tm" ->
           Emit(b, args, N6, <<SetTextMatrix(Matrix(args[1].n, args[2].n, args[3].n, args[4].n,
                                                    args[5].n, args[6].n))>>, p)
      [] op = "Tr" -> AddTextRenderMode(b, args, p)
      [] op = "Ts" -> Emit(b, args, N1, <<TextRise(args[1].n)>>, p)
      [] op = "Tw" -> Emit(b, args, N1, <<WordSpacing(args[1].n)>>, p)
      [] op = "Tz" -> Emit(b, args, N1, <<TextScaling(args[1].n)>>, p)
      [] op = "v" -> AddCurveV(b, args, p)
      [] op = "w" -> Emit(b, args, N1, <<LineWidth(args[1].n)>>, p)
      [] op = "W" -> Emit(b, args, <<>>, <<Clip("NonZero")>>, p)
      [] op = "W*" -> Emit(b, args, <<>>, <<Clip("EvenOdd")>>, p)
      [] op = "y" -> AddCurveY(b, args, p)
      [] op = "'" -> AddQuote(b, args, p)
      [] op = "\"" -> AddDoubleQuote(b, args, p)
      [] op \notin Mnemonics -> AddUnknown(b, p)

\* the state of one run of OpBuilder::parse
ParseState(res, p, buf, b, call) == [res |-> res, pos |-> p, buffer |-> buf, b |-> b, call |-> call]

NoCall == <<>>

\* the comparison without its Greater arm
BoundaryNoGreater(d, p) == IF p >= Len(d) THEN "Ok" ELSE "run"

\* the comparison of the lexer position with data.len() that ends each loop step
Boundary(d, p) ==
    IF p > Len(d) THEN "ContentReadPastBoundary" ELSE IF p = Len(d) THEN "Ok" ELSE "run"

\* one step of the loop of OpBuilder::parse over d, from position p with the operands
\* buf pending: an operand pushed, an operator dispatched, or the end of the input
Call(operator, args, b, r) ==
    <<[op |-> operator, args |-> args, res |-> r.res, before |-> b, after |-> r.b]>>

\* the operands left in the buffer after the dispatch
DispatchedKeepsBuffer(d, buf, b, operator, r) ==
    IF r.res # "Ok" THEN ParseState(r.res, r.pos, buf, r.b, Call(operator, buf, b, r))
    ELSE ParseState(Boundary(d, r.pos), r.pos, buf, r.b, Call(operator, buf, b, r))

\* the operator was dispatched: r is what add returned
Dispatched(d, buf, b, operator, r) ==
    IF r.res # "Ok" THEN ParseState(r.res, r.pos, <<>>, r.b, Call(operator, buf, b, r))
    ELSE ParseState(Boundary(d, r.pos), r.pos, <<>>, r.b, Call(operator, buf, b, r))

\* not an operand: the position is set back and the next word is the operator
Operator(d, p, buf, b, ov, w) ==
    IF w.eof THEN ParseState("EOF", p, buf, b, NoCall)
    ELSE Dispatched(d, buf, b, Str(w.word), Add(b, Str(w.word), buf, d, w.pos, ov))

Iter(d, p, buf, b, ov, obj) ==
    IF obj.st = "ok" THEN ParseState(Boundary(d, obj.pos), obj.pos, Append(buf, obj.val), b, NoCall)
    ELSE IF obj.st = "eof" THEN ParseState("Ok", p, buf, b, NoCall)
    ELSE Operator(d, p, buf, b, ov, NextWord(d, p, ov))

ParseIter(d, p, buf, b, ov) == Iter(d, p, buf, b, ov, ParseObject(d, p, ov))

RECURSIVE ParseFrom(_, _, _, _, _)

ParseOn(d, ov, st) ==
    IF st.res = "run" THEN ParseFrom(d, st.pos, st.buffer, st.b, ov)
    ELSE [res |-> st.res, b |-> st.b]

\* OpBuilder::parse as a whole, from position p: the result and the builder after it
ParseFrom(d, p, buf, b, ov) == ParseOn(d, ov, ParseIter(d, p, buf, b, ov))

Parse(b, d, ov) == ParseFrom(d, 0, <<>>, b, ov)

----------------------------------------------------------------------------
(* Content *)

NoContent == [st |-> "none", operations |-> <<>>, parts |-> <<>>]
NoPrim == [kind |-> "None", streams |-> <<>>]
StreamPrim(bytes) == [kind |-> "Stream", streams |-> <<bytes>>]
ArrayPrim(streams) == [kind |-> "Array", streams |-> streams]

\* to_primitive without the arm for a single part
to_primitive_array(c) == ArrayPrim(c.parts)

\* ObjectWrite for Content
to_primitive(c) == IF Len(c.parts) = 1 THEN StreamPrim(c.parts[1]) ELSE ArrayPrim(c.parts)

\* Content::from_ops, given the bytes serialize_ops returned
from_ops(operations, bytes) == [st |-> "ok", operations |-> operations, parts |-> <<bytes>>]

----------------------------------------------------------------------------
(* Actions *)

\* a loop step that writes nothing for an InlineImage and goes on
SerStepSkipsImage ==
    /\ pc = "ser"
    /\ sops # <<>>
    /\ sdata' = sdata \o SerializeOp(sops, scp).out
    /\ scp' = NextCurrentPoint(sops[1], scp)
    /\ sops' = DropOps(sops, IF sops[1].op = "InlineImage" THEN 1 ELSE SerializeOp(sops, scp).advance)
    /\ sadv' = SerializeOp(sops, scp).advance
    /\ pc' = pc
    /\ UNCHANGED <<input, round, content, first, prim, partIdx, parts, data, pos, buffer,
                   builder, pres, calls, overshoot, workers>>

\* one step of the loop of serialize_ops
SerStep ==
    /\ pc = "ser"
    /\ sops # <<>>
    /\ IF sops[1].op = "InlineImage"
       THEN /\ pc' = "panic"
            /\ UNCHANGED <<sops, sdata, scp, sadv>>
       ELSE LET st == SerializeOp(sops, scp)
            IN  /\ sdata' = sdata \o st.out
                /\ scp' = NextCurrentPoint(sops[1], scp)
                /\ sops' = DropOps(sops, st.advance)
                /\ sadv' = st.advance
                /\ pc' = pc
    /\ UNCHANGED <<input, round, content, first, prim, partIdx, parts, data, pos, buffer,
                   builder, pres, calls, overshoot, workers>>

\* Content::from_ops once serialize_ops has returned
FromOps ==
    /\ pc = "ser"
    /\ sops = <<>>
    /\ content' = from_ops(IF round = 1 THEN input ELSE content.operations, sdata)
    /\ first' = IF round = 1 THEN sdata ELSE first
    /\ pc' = "built"
    /\ UNCHANGED <<input, round, sops, sdata, scp, sadv, prim, partIdx, parts, data, pos,
                   buffer, builder, pres, calls, overshoot, workers>>

\* Content::to_primitive
ToPrimitive ==
    /\ pc \in {"built", "parsed"}
    /\ prim' = to_primitive(content)
    /\ pc' = IF pc = "built" /\ round = 1 THEN "prim" ELSE "done"
    /\ UNCHANGED <<input, round, sops, sdata, scp, sadv, content, first, partIdx, parts,
                   data, pos, buffer, builder, pres, calls, overshoot, workers>>

\* Content::from_primitive: the builder and the empty list of parts
FromPrimitive ==
    /\ pc = "prim"
    /\ builder' = NewBuilder
    /\ parts' = <<>>
    /\ partIdx' = 0
    /\ pres' = "idle"
    /\ calls' = <<>>
    /\ pc' = "from"
    /\ UNCHANGED <<input, round, sops, sdata, scp, sadv, content, first, prim, data, pos,
                   buffer, overshoot, workers>>

\* the next stream of the primitive is decoded and OpBuilder::parse starts on it
BeginPart ==
    /\ pc = "from"
    /\ pres = "idle"
    /\ partIdx < Len(prim.streams)
    /\ partIdx' = partIdx + 1
    /\ data' = prim.streams[partIdx + 1]
    /\ pos' = 0
    /\ buffer' = <<>>
    /\ pres' = "run"
    /\ UNCHANGED <<input, pc, round, sops, sdata, scp, sadv, content, first, prim, parts,
                   builder, calls, overshoot, workers>>

\* one step of the loop of OpBuilder::parse
ParseStep ==
    /\ pc = "from"
    /\ pres = "run"
    /\ LET st == ParseIter(data, pos, buffer, builder, overshoot)
       IN  /\ pos' = st.pos
           /\ buffer' = st.buffer
           /\ builder' = st.b
           /\ pres' = st.res
           /\ calls' = calls \o st.call
    /\ UNCHANGED <<input, pc, round, sops, sdata, scp, sadv, content, first, prim, partIdx,
                   parts, data, overshoot, workers>>

\* OpBuilder::parse returned Ok: the part is kept
PartOk ==
    /\ pc = "from"
    /\ pres = "Ok"
    /\ parts' = Append(parts, data)
    /\ pres' = "idle"
    /\ UNCHANGED <<input, pc, round, sops, sdata, scp, sadv, content, first, prim, partIdx,
                   data, pos, buffer, builder, calls, overshoot, workers>>

\* every stream is parsed: from_primitive returns the Content
ContentOk ==
    /\ pc = "from"
    /\ pres = "idle"
    /\ partIdx = Len(prim.streams)
    /\ content' = [st |-> "ok", operations |-> builder.ops, parts |-> parts]
    /\ pc' = "parsed"
    /\ UNCHANGED <<input, round, sops, sdata, scp, sadv, first, prim, partIdx, parts, data,
                   pos, buffer, builder, pres, calls, overshoot, workers>>

\* from_primitive handing out the operations pushed before the error
ContentErrPartial ==
    /\ pc = "from"
    /\ pres \notin {"idle", "run", "Ok"}
    /\ content' = [st |-> "err", operations |-> builder.ops, parts |-> parts]
    /\ pc' = IF pres = "Panic" THEN "panic" ELSE "failed"
    /\ UNCHANGED <<input, round, sops, sdata, scp, sadv, first, prim, partIdx, parts, data,
                   pos, buffer, builder, pres, calls, overshoot, workers>>

\* OpBuilder::parse returned an error (or panicked): from_primitive returns no Content
ContentErr ==
    /\ pc = "from"
    /\ pres \notin {"idle", "run", "Ok"}
    /\ content' = [st |-> "err", operations |-> <<>>, parts |-> <<>>]
    /\ pc' = IF pres = "Panic" THEN "panic" ELSE "failed"
    /\ UNCHANGED <<input, round, sops, sdata, scp, sadv, first, prim, partIdx, parts, data,
                   pos, buffer, builder, pres, calls, overshoot, workers>>

\* Content::from_ops on the operations that were parsed: serialize_ops starts
Reserialize ==
    /\ pc = "parsed"
    /\ round = 1
    /\ round' = 2
    /\ sops' = content.operations
    /\ sdata' = <<>>
    /\ scp' = None
    /\ sadv' = 0
    /\ pc' = "ser"
    /\ UNCHANGED <<input, content, first, prim, partIdx, parts, data, pos, buffer, builder,
                   pres, calls, overshoot, workers>>

----------------------------------------------------------------------------
(* FormXObject::from_primitive, one call for each worker *)

Workers == {1, 2}

NoWorkers == <<>>

NoForm == [st |-> "none", operations |-> <<>>]

\* the call entered: the builder is new, the lexer at the start of the data
NewWorker(d) ==
    [data |-> d, pos |-> 0, buffer |-> <<>>, builder |-> NewBuilder, pres |-> "run",
     form |-> NoForm]

\* the worker after the step st of its loop
WorkerAfter(worker, st) ==
    [worker EXCEPT !.pos = st.pos, !.buffer = st.buffer, !.builder = st.b, !.pres = st.res]

\* one step of the loop of OpBuilder::parse, on the worker's own lexer and builder
WorkerNext(worker) ==
    WorkerAfter(worker, ParseIter(worker.data, worker.pos, worker.buffer, worker.builder, FALSE))

\* what from_primitive returns once parse has returned
WorkerForm(worker) ==
    IF worker.pres = "Ok" THEN [st |-> "ok", operations |-> worker.builder.ops]
    ELSE [st |-> worker.pres, operations |-> <<>>]

\* the two workers pushing on the builder of the first
WorkerStepShared(w) ==
    /\ workers # NoWorkers
    /\ workers[w].pres = "run"
    /\ LET st == WorkerNext([workers[w] EXCEPT !.builder = workers[1].builder])
       IN  workers' = [workers EXCEPT ![w] = st, ![1].builder = st.builder]
    /\ UNCHANGED <<input, pc, round, sops, sdata, scp, sadv, content, first, prim, partIdx,
                   parts, data, pos, buffer, builder, pres, calls, overshoot>>

\* worker w runs one step of its loop
WorkerStep(w) ==
    /\ workers # NoWorkers
    /\ workers[w].pres = "run"
    /\ workers' = [workers EXCEPT ![w] = WorkerNext(workers[w])]
    /\ UNCHANGED <<input, pc, round, sops, sdata, scp, sadv, content, first, prim, partIdx,
                   parts, data, pos, buffer, builder, pres, calls, overshoot>>

\* parse has returned: worker w returns the FormXObject or the error
WorkerReturn(w) ==
    /\ workers # NoWorkers
    /\ workers[w].pres # "run"
    /\ workers[w].form = NoForm
    /\ workers' = [workers EXCEPT ![w].form = WorkerForm(workers[w])]
    /\ UNCHANGED <<input, pc, round, sops, sdata, scp, sadv, content, first, prim, partIdx,
                   parts, data, pos, buffer, builder, pres, calls, overshoot>>

----------------------------------------------------------------------------
(* Inputs *)

MaxOps == 2
MaxCmds == 3
MaxSplitCmds == 2

NameA == <<"a">>

\* the operations whose serialization depends on a neighbour or on the point before
CoreOps ==
    {Close, Stroke, FillAndStroke("NonZero"), FillAndStroke("EvenOdd"), Save,
     MoveTo(Point(1, 2)), LineTo(Point(3, 4)),
     CurveTo(Point(1, 2), Point(3, 4), Point(5, 6)),
     CurveTo(Point(7, 8), Point(5, 6), Point(5, 6)),
     CurveTo(Point(0, 0), Point(3, 4), Point(5, 6)),
     CurveTo(Point(5, 6), Point(3, 4), Point(7, 8)),
     Dash(<<1, 2>>, 0), Shade(NameA), LineWidth(1),
     Leading(-1), Leading(-2), MoveTextPosition(Point(1, 2)),
     WordSpacing(1), CharSpacing(2), TextNewline, TextDraw(NameA)}

\* one operation for every other arm of the serializer
OtherOps ==
    {BeginMarkedContent(NameA, PInteger(1)), BeginMarkedContent(NameA, NoPrimitive),
     MarkedContentPoint(NameA, PName(NameA)), MarkedContentPoint(NameA, NoPrimitive), EndMarkedContent,
     RectOp(Rect(1, 2, 3, 4)), EndPath, Fill("NonZero"), Fill("EvenOdd"),
     Clip("NonZero"), Clip("EvenOdd"), Restore, Transform(Matrix(1, 0, 0, 1, 5, 6)),
     LineJoin("Miter"), LineJoin("Round"), LineJoin("Bevel"),
     LineCap("Butt"), LineCap("Round"), LineCap("Square"),
     MiterLimit(10), Flatness(1), GraphicsState(NameA),
     StrokeColor(ColorGray(1)), StrokeColor(ColorRgb(Rgb(1, 0, 0))),
     StrokeColor(ColorCmyk(Cmyk(0, 1, 0, 1))), StrokeColor(ColorOther(<<PInteger(1), PName(NameA)>>)),
     FillColor(ColorGray(0)), FillColor(ColorRgb(Rgb(0, 1, 0))),
     FillColor(ColorCmyk(Cmyk(1, 0, 1, 0))), FillColor(ColorOther(<<PName(NameA)>>)),
     FillColorSpace(NameA), StrokeColorSpace(NameA), BeginText, EndText,
     TextScaling(100), TextFont(NameA, 12), TextRise(-3),
     TextRenderMode("Fill"), TextRenderMode("Stroke"), TextRenderMode("FillThenStroke"),
     TextRenderMode("Invisible"), TextRenderMode("FillAndClip"), TextRenderMode("StrokeAndClip"),
     SetTextMatrix(Matrix(1, 0, 0, 1, 0, 0)), TextDrawAdjusted(<<PInteger(1), PInteger(-2)>>),
     XObject(NameA)}

SeqsUpTo(S, n) == UNION {[1..k -> S] : k \in 0..n}

\* an inline image of one byte
OneImage ==
    [NoImage EXCEPT !.width = 1, !.height = 1, !.bits_per_component = 8, !.data = <<"x">>]

\* an inline image alone, after and before another operation
ImageOps == {<<InlineImage(OneImage)>>, <<Save, InlineImage(OneImage)>>, <<InlineImage(OneImage), Save>>}

MaxTextOps == 4

\* the operations of the folds of WordSpacing and TextNewline
TextOps == {WordSpacing(1), CharSpacing(2), TextNewline, TextDraw(NameA)}

TextInputs == SeqsUpTo(TextOps, MaxTextOps)

\* curves whose points hold the f32 -0.0 where the compared point holds 0
SignedZeroInputs ==
    {<<MoveTo(Point(0, 0)), CurveTo(Point(NegZero, 0), Point(1, 1), Point(2, 2))>>,
     <<MoveTo(Point(NegZero, 0)), CurveTo(Point(0, 0), Point(1, 1), Point(2, 2))>>,
     <<MoveTo(Point(9, 9)), CurveTo(Point(1, 1), Point(NegZero, 2), Point(0, 2))>>}

RoundTripInputs ==
    SeqsUpTo(CoreOps, MaxOps) \cup {<<o>> : o \in OtherOps} \cup ImageOps \cup TextInputs
        \cup SignedZeroInputs

RECURSIVE JoinWords(_)
JoinWords(ws) ==
    IF ws = <<>> THEN <<>>
    ELSE IF Len(ws) = 1 THEN ws[1]
    ELSE ws[1] \o <<" ">> \o JoinWords(Tail(ws))

\* the commands (operands and operator) one to a line
RECURSIVE Lines(_)
Lines(cmds) == IF cmds = <<>> THEN <<>> ELSE JoinWords(cmds[1]) \o <<"\n">> \o Lines(Tail(cmds))

\* the bytes without the newline that ends them
Chop(bytes) == IF bytes = <<>> THEN bytes ELSE SubSeq(bytes, 1, Len(bytes) - 1)

Num(n) == NumChars(n)

ParseCmds ==
    {<<<<"B", "X">>>>, <<<<"E", "X">>>>, <<<<"z", "z">>>>,
     <<Num(10), Num(10), Num(20), Num(20), <<"v">>>>,
     <<Num(10), Num(10), Num(20), Num(20), <<"y">>>>,
     <<Num(1), Num(2), <<"m">>>>,
     <<Num(3), Num(4), <<"l">>>>,
     <<Num(1), Num(1), Num(2), Num(2), Num(5), Num(6), <<"c">>>>,
     <<Num(1), <<"w">>>>}

ParseStreams ==
    LET full == {Lines(cmds) : cmds \in SeqsUpTo(ParseCmds, MaxCmds)}
    IN  full \cup {Chop(d) : d \in full}

SplitCmds ==
    {<<Num(1), <<"w">>>>, <<<<"q">>>>, <<<<"Q">>>>, <<Num(1), Num(2), <<"m">>>>,
     <<Num(3), Num(4), Num(5), Num(6), <<"v">>>>, <<<<"B", "X">>>>, <<<<"z", "z">>>>,
     <<<<"'">>>>, <<Num(1), <<"\"">>>>, <<Num(7), Num(1), <<"w">>>>, <<Num(1), <<"q">>>>}

\* a stream cut into two parts at any byte, in one part, and the empty array
SplitPrims ==
    LET full == {Lines(cmds) : cmds \in SeqsUpTo(SplitCmds, MaxSplitCmds)}
    IN  UNION {{ArrayPrim(<<SubSeq(d, 1, k), SubSeq(d, k + 1, Len(d))>>) : k \in 0..Len(d)} :
                   d \in full}
        \cup {ArrayPrim(<<d>>) : d \in full} \cup {StreamPrim(d) : d \in full}
        \cup {ArrayPrim(<<>>)}


\* every operator that takes operands, with well-typed operands for it
ArityTable ==
    <<<<<<"c", "m">>, <<Num(1), Num(1), Num(1), Num(1), Num(1), Num(1)>>>>,
     <<<<"c">>, <<Num(1), Num(1), Num(1), Num(1), Num(1), Num(1)>>>>,
     <<<<"v">>, <<Num(1), Num(1), Num(1), Num(1)>>>>,
     <<<<"y">>, <<Num(1), Num(1), Num(1), Num(1)>>>>,
     <<<<"r", "e">>, <<Num(1), Num(1), Num(1), Num(1)>>>>,
     <<<<"R", "G">>, <<Num(1), Num(1), Num(1)>>>>,
     <<<<"r", "g">>, <<Num(1), Num(1), Num(1)>>>>,
     <<<<"K">>, <<Num(1), Num(1), Num(1), Num(1)>>>>,
     <<<<"k">>, <<Num(1), Num(1), Num(1), Num(1)>>>>,
     <<<<"m">>, <<Num(1), Num(1)>>>>,
     <<<<"l">>, <<Num(1), Num(1)>>>>,
     <<<<"T", "d">>, <<Num(1), Num(1)>>>>,
     <<<<"T", "D">>, <<Num(1), Num(1)>>>>,
     <<<<"T", "f">>, <<NameChars(NameA), Num(1)>>>>,
     <<<<"d">>, <<<<"[", "1", "]">>, Num(1)>>>>,
     <<<<"s", "h">>, <<NameChars(NameA)>>>>,
     <<<<"D", "o">>, <<NameChars(NameA)>>>>,
     <<<<"g", "s">>, <<NameChars(NameA)>>>>,
     <<<<"C", "S">>, <<NameChars(NameA)>>>>,
     <<<<"c", "s">>, <<NameChars(NameA)>>>>,
     <<<<"d", "0">>, <<Num(1), Num(1)>>>>,
     <<<<"d", "1">>, <<Num(1), Num(1), Num(1), Num(1), Num(1), Num(1)>>>>,
     <<<<"B", "D", "C">>, <<NameChars(NameA), Num(1)>>>>,
     <<<<"D", "P">>, <<NameChars(NameA), Num(1)>>>>,
     <<<<"B", "M", "C">>, <<NameChars(NameA)>>>>,
     <<<<"M", "P">>, <<NameChars(NameA)>>>>,
     <<<<"G">>, <<Num(1)>>>>,
     <<<<"g">>, <<Num(1)>>>>,
     <<<<"i">>, <<Num(1)>>>>,
     <<<<"M">>, <<Num(1)>>>>,
     <<<<"w">>, <<Num(1)>>>>,
     <<<<"j">>, <<Num(1)>>>>,
     <<<<"J">>, <<Num(1)>>>>,
     <<<<"T", "r">>, <<Num(1)>>>>,
     <<<<"T", "c">>, <<Num(1)>>>>,
     <<<<"T", "L">>, <<Num(1)>>>>,
     <<<<"T", "s">>, <<Num(1)>>>>,
     <<<<"T", "w">>, <<Num(1)>>>>,
     <<<<"T", "z">>, <<Num(1)>>>>,
     <<<<"T", "m">>, <<Num(1), Num(1), Num(1), Num(1), Num(1), Num(1)>>>>,
     <<<<"T", "j">>, <<StringChars(NameA)>>>>,
     <<<<"T", "J">>, <<<<"[", "1", "]">>>>>>,
     <<<<"'">>, <<StringChars(NameA)>>>>,
     <<<<"\"">>, <<Num(1), Num(1), StringChars(NameA)>>>>,
     <<<<"r", "i">>, <<NameChars(<<"P", "e", "r", "c", "e", "p", "t", "u", "a", "l">>)>>>>>>

\* the number of operands the operator takes
Arity(op) ==
    IF \E i \in 1..Len(ArityTable) : Str(ArityTable[i][1]) = op
    THEN Len(ArityTable[CHOOSE i \in 1..Len(ArityTable) : Str(ArityTable[i][1]) = op][2])
    ELSE 0

\* each operator of the table after the first k of its operands, k up to its arity
ArityStreams ==
    UNION {{Lines(<<Append(SubSeq(ArityTable[i][2], 1, k), ArityTable[i][1])>>) :
                k \in 0..Len(ArityTable[i][2])} : i \in 1..Len(ArityTable)}

\* the operators that take no operand
PlainOperators ==
    {<<"b">>, <<"B">>, <<"b", "*">>, <<"B", "*">>, <<"B", "T">>, <<"B", "X">>, <<"E", "X">>,
     <<"E", "M", "C">>, <<"E", "T">>, <<"f">>, <<"F">>, <<"f", "*">>, <<"h">>, <<"n">>, <<"q">>,
     <<"Q">>, <<"s">>, <<"S">>, <<"T", "*">>, <<"W">>, <<"W", "*">>, <<"I", "D">>, <<"E", "I">>}

\* the operators that take every operand there is
ColorOperators == {<<"S", "C">>, <<"S", "C", "N">>, <<"s", "c">>, <<"s", "c", "n">>}

\* every operator of the table with its operands, one to a stream
OperatorCmds ==
    {Append(ArityTable[i][2], ArityTable[i][1]) : i \in 1..Len(ArityTable)}
        \cup {<<w>> : w \in PlainOperators}
        \cup {<<Num(1), w>> : w \in ColorOperators}

MaxCodeCmds == 2

\* j, J, Tr and ri with codes and names inside and outside their ranges, the
\* operators BX, EX, ID, EI, and TD with a vertical operand of 0
CodeCmds ==
    {<<Num(k), <<"j">>>> : k \in -1..3} \cup {<<Num(k), <<"J">>>> : k \in 0..3}
        \cup {<<Num(k), <<"T", "r">>>> : k \in 0..6}
        \cup {<<NameChars(<<"P", "e", "r", "c", "e", "p", "t", "u", "a", "l">>), <<"r", "i">>>>,
              <<NameChars(<<"F", "o", "o">>), <<"r", "i">>>>,
              <<<<"B", "X">>>>, <<<<"E", "X">>>>, <<<<"I", "D">>>>, <<<<"E", "I">>>>,
              <<Num(5), Num(0), <<"T", "D">>>>, <<Num(0), Num(0), <<"T", "D">>>>}

CodeStreams == {Lines(cmds) : cmds \in SeqsUpTo(CodeCmds, MaxCodeCmds)}

ImagePairs ==
    <<<<"/", "W", " ", "1", " ">>, <<"/", "H", " ", "1", " ">>,
      <<"/", "B", "P", "C", " ", "8", " ">>, <<"/", "C", "S", " ", "/", "G", " ">>,
      <<"/", "F", " ", "/", "F", "l", " ">>, <<"/", "D", " ", "[", "0", " ", "1", "]", " ">>,
      <<"/", "D", "P", " ", "<", "<", ">", ">", " ">>>>

RECURSIVE PairsOf(_, _)
PairsOf(keys, i) ==
    IF i > Len(ImagePairs) THEN <<>>
    ELSE (IF i \in keys THEN ImagePairs[i] ELSE <<>>) \o PairsOf(keys, i + 1)

\* BI, the pairs of keys, ID, one byte of payload, the end marker
ImageBytes(keys) ==
    <<"B", "I", " ">> \o PairsOf(keys, 1) \o <<"I", "D", " ", "x", "\n", "E", "I">>

\* the image with every key, its Filter having the value filter
ImageWithFilter(filter) ==
    <<"B", "I", " ">> \o PairsOf({1, 2, 3, 4}, 1) \o <<"/", "F", " ">> \o filter \o <<" ">>
        \o PairsOf({6, 7}, 1) \o <<"I", "D", " ", "x", "\n", "E", "I">>

\* a name that is no filter kind, an array of one name, an integer, an array
\* of an integer, a string
FilterValues ==
    {<<"/", "Z">>, <<"[", "/", "F", "l", "]">>, <<"1">>, <<"[", "1", "]">>, <<"(", "a", ")">>,
     <<"[", "/", "Z", " ", "1", "]">>, <<"[", "1", " ", "/", "Z", "]">>,
     <<"[", "/", "F", "l", " ", "/", "Z", " ", "1", "]">>}

\* BI, every key and ID
ImageHead == <<"B", "I", " ">> \o PairsOf(1..Len(ImagePairs), 1) \o <<"I", "D">>

\* the bytes between ID and the end marker: nothing, the separator alone, one
\* byte, bytes that read as operators and operands, E and I without a newline
\* before them, and an end marker inside
PayloadBytes ==
    {<<>>, <<" ">>, <<" ", "x">>, <<"\n", "x">>, <<" ", "x", " ", "1", " ", "q">>,
     <<" ", "E", "I", "x">>, <<" ", "q", "\n", "E", "I", " ", "q">>}

\* what follows the end marker
Trailers == {<<>>, <<"\n", "Q", "\n">>, <<" ", "Q">>}

\* the image with every key, bytes between ID and the end marker, and trailer after it
ImageWithPayload(bytes, trailer) == ImageHead \o bytes \o <<"\n", "E", "I">> \o trailer

ImageTail == <<"I", "D", " ", "x", "\n", "E", "I">>

\* BI alone; a key and no value; a key whose value is no object; a key that
\* is an integer; two names and two integers; an operator before ID; no key
\* at all; the keys and no ID
KeyLoopStreams ==
    <<<<"B", "I">>,
      <<"B", "I", " ", "/", "W">>,
      <<"B", "I", " ", "/", "W", " ", "q", " ">> \o ImageTail,
      <<"B", "I", " ", "1", " ">> \o ImageTail,
      <<"B", "I", " ", "/", "W", " ", "/", "H", " ", "1", " ", "1", " ">> \o ImageTail,
      <<"B", "I", " ", "/", "W", " ", "1", " ", "q", " ">> \o ImageTail,
      <<"B", "I", " ">> \o ImageTail,
      <<"B", "I", " ">> \o PairsOf(1..Len(ImagePairs), 1)>>

ImageStreams ==
    LET one == {ImageBytes(keys) : keys \in SUBSET (1..Len(ImagePairs))}
    IN  one \cup {d \o <<"\n", "Q", "\n">> : d \in one}
            \cup {ImageWithFilter(f) : f \in FilterValues}
            \cup {ImageWithPayload(b, t) : b \in PayloadBytes, t \in Trailers}
            \cup {KeyLoopStreams[i] : i \in 1..Len(KeyLoopStreams)}

\* each operator alone and as the second command of a stream, and an inline image
OperatorStreams ==
    {Lines(<<c>>) : c \in OperatorCmds} \cup {Lines(<<<<<<"q">>>>, c>>) : c \in OperatorCmds}
        \cup {ImageBytes(1..Len(ImagePairs)), <<"q", "\n">> \o ImageBytes(1..Len(ImagePairs))}

MaxWorkerCmds == 2

\* commands that set and read the flag and the last point, and fill the buffer
WorkerCmds ==
    {<<<<"B", "X">>>>, <<<<"z", "z">>>>, <<Num(1), Num(2), <<"m">>>>,
     <<Num(3), Num(4), Num(5), Num(6), <<"v">>>>}

WorkerStreams == {Lines(cmds) : cmds \in SeqsUpTo(WorkerCmds, MaxWorkerCmds)}

----------------------------------------------------------------------------
(* Specifications *)

InitCommon ==
    /\ round = 1
    /\ sdata = <<>>
    /\ scp = None
    /\ sadv = 0
    /\ content = NoContent
    /\ first = <<>>
    /\ partIdx = 0
    /\ parts = <<>>
    /\ data = <<>>
    /\ pos = 0
    /\ buffer = <<>>
    /\ builder = NewBuilder
    /\ pres = "idle"
    /\ calls = <<>>

\* Content::from_ops on the input, to_primitive, from_primitive, from_ops again
Init ==
    /\ input \in RoundTripInputs
    /\ sops = input
    /\ pc = "ser"
    /\ prim = NoPrim
    /\ overshoot = FALSE
    /\ workers = NoWorkers
    /\ InitCommon

InitFrom(prims, ovs) ==
    /\ input = <<>>
    /\ sops = <<>>
    /\ pc = "prim"
    /\ prim \in prims
    /\ overshoot \in ovs
    /\ workers = NoWorkers
    /\ InitCommon

\* Content::from_primitive on a stream of commands
InitParse == InitFrom({StreamPrim(d) : d \in ParseStreams}, BOOLEAN)

\* Content::from_primitive on an array of streams
InitParts == InitFrom(SplitPrims, {FALSE})

\* Content::from_primitive on one operator after some of its operands
InitArity == InitFrom({StreamPrim(d) : d \in ArityStreams}, {FALSE})

\* Content::from_primitive on an inline image
InitImage == InitFrom({StreamPrim(d) : d \in ImageStreams}, {FALSE})

\* Content::from_primitive on operators with codes, then from_ops on the result
InitCodes == InitFrom({StreamPrim(d) : d \in CodeStreams}, {FALSE})

\* Content::from_primitive on each operator with its operands
InitOperators == InitFrom({StreamPrim(d) : d \in OperatorStreams}, {FALSE})

\* two calls of FormXObject::from_primitive, each on a stream of its own; the
\* workers being alike, the longer stream is given to the first
InitWorkers ==
    /\ input = <<>>
    /\ sops = <<>>
    /\ pc = "workers"
    /\ prim = NoPrim
    /\ overshoot = FALSE
    /\ workers \in {<<NewWorker(d[1]), NewWorker(d[2])>> :
                        d \in {x \in WorkerStreams \X WorkerStreams : Len(x[2]) <= Len(x[1])}}
    /\ InitCommon

NextWorkers ==
    \/ \E w \in Workers : WorkerStep(w)
    \/ \E w \in Workers : WorkerReturn(w)

NextParse ==
    \/ FromPrimitive
    \/ BeginPart
    \/ ParseStep
    \/ PartOk
    \/ ContentOk
    \/ ContentErr
    \/ ToPrimitive

Next ==
    \/ SerStep
    \/ FromOps
    \/ Reserialize
    \/ NextParse

Spec == Init /\ [][Next]_vars
SpecParse == InitParse /\ [][NextParse]_vars
SpecParts == InitParts /\ [][Next]_vars
SpecArity == InitArity /\ [][NextParse]_vars
SpecImage == InitImage /\ [][NextParse]_vars
SpecCodes == InitCodes /\ [][Next]_vars
SpecOperators == InitOperators /\ [][NextParse]_vars
SpecWorkers == InitWorkers /\ [][NextWorkers]_vars

\* the loop of serialize_ops and the return of from_ops run to their end
SpecProgress == Init /\ [][Next]_vars /\ WF_vars(SerStep) /\ WF_vars(FromOps)

----------------------------------------------------------------------------
(* Round trip and normal form *)

\* C1: for every operation sequence without an inline image, parsing the bytes
\* serialize_ops produced for it succeeds and yields the same sequence.
RoundTrip ==
    round = 1 => /\ pc # "failed"
                 /\ pc = "parsed" => content.operations = input

\* C2: serializing the operations parsed from serialize_ops(ops) produces the
\* bytes serialize_ops(ops) produced.
Idempotence == (round = 2 /\ pc = "done") => sdata = first

----------------------------------------------------------------------------
(* The dispatcher *)

\* C3: an operator of fixed arity N > 0 dispatched with fewer than N pending
\* operands returns NoOpArg.
ArityEnforced ==
    \A i \in 1..Len(calls) :
        (Arity(calls[i].op) > 0 /\ Len(calls[i].args) < Arity(calls[i].op))
            => calls[i].res = "NoOpArg"

\* the flag after the first n calls: whether the most recent of BX and EX is BX
RECURSIVE InSection(_, _)
InSection(cs, n) ==
    IF n = 0 THEN FALSE
    ELSE IF cs[n].op = "BX" THEN TRUE
    ELSE IF cs[n].op = "EX" THEN FALSE
    ELSE InSection(cs, n - 1)

\* C4: an operator outside the table dispatched after a BX with no EX since
\* produces no operation and no error; dispatched with the flag false it makes
\* the parse fail; the flag is true exactly when the most recent of BX and EX
\* dispatched so far is BX.
CompatibilitySection ==
    /\ builder.compability_section = InSection(calls, Len(calls))
    /\ \A i \in 1..Len(calls) :
          calls[i].op \notin Mnemonics =>
              IF InSection(calls, i - 1)
              THEN calls[i].res = "Ok" /\ calls[i].after.ops = calls[i].before.ops
              ELSE calls[i].res # "Ok" /\ pres # "Ok" /\ pc \notin {"parsed", "done"}

\* an unknown operator was ignored inside a section that was then closed
CompatibilitySectionWitness ==
    /\ pc = "parsed"
    /\ ~builder.compability_section
    /\ \E i \in 1..Len(calls) :
          /\ calls[i].op = "zz"
          /\ calls[i].before.compability_section
          /\ calls[i].res = "Ok"

\* the end point of the operands of a path operator
EndPoint(c) ==
    IF c.op \in {"m", "l"} THEN Point(c.args[1].n, c.args[2].n)
    ELSE IF c.op = "c" THEN Point(c.args[5].n, c.args[6].n)
    ELSE Point(c.args[3].n, c.args[4].n)

\* the point set by the most recent m, l, c, v or y among the first n calls
RECURSIVE LastPoint(_, _)
LastPoint(cs, n) ==
    IF n = 0 THEN Point(0, 0)
    ELSE IF cs[n].op \in {"m", "l", "c", "v", "y"} /\ cs[n].res = "Ok" THEN EndPoint(cs[n])
    ELSE LastPoint(cs, n - 1)

\* C5: v with operands (c2, p) emits CurveTo{last, c2, p}, last being the point
\* set by the most recent m, l, c, v or y (initially (0,0)); y with operands
\* (c1, p) emits CurveTo{c1, p, p}; both set last = p; no other operator
\* changes last.
CurveShorthand ==
    \A i \in 1..Len(calls) :
        LET call == calls[i]
            c == Point(call.args[1].n, call.args[2].n)
        IN  /\ call.before.last = LastPoint(calls, i - 1)
            /\ (call.op = "v" /\ call.res = "Ok") =>
                  /\ call.after.ops =
                         Append(call.before.ops, CurveTo(LastPoint(calls, i - 1), c, EndPoint(call)))
                  /\ call.after.last = EndPoint(call)
            /\ (call.op = "y" /\ call.res = "Ok") =>
                  /\ call.after.ops =
                         Append(call.before.ops, CurveTo(c, EndPoint(call), EndPoint(call)))
                  /\ call.after.last = EndPoint(call)
            /\ call.op \notin {"m", "l", "c", "v", "y"} => call.after.last = call.before.last

\* m, then v from the point m set, then y
CurveShorthandWitness ==
    /\ pc = "parsed"
    /\ content.operations =
           <<MoveTo(Point(1, 2)), CurveTo(Point(1, 2), Point(10, 10), Point(20, 20)),
             CurveTo(Point(10, 10), Point(20, 20), Point(20, 20))>>

\* C8: after a step that pushed an operand or dispatched an operator, a
\* position greater than the length of the data fails the parse with
\* ContentReadPastBoundary, a position equal to it ends the loop with success,
\* a smaller one continues the loop; once the position has passed the length
\* no operation is emitted.
BoundaryCheck ==
    [][/\ (/\ pc = "from"
           /\ pres = "run"
           /\ \/ Len(buffer') = Len(buffer) + 1
              \/ Len(calls') = Len(calls) + 1 /\ calls'[Len(calls')].res = "Ok")
          => /\ pos' > Len(data) => pres' = "ContentReadPastBoundary"
             /\ pos' = Len(data) => pres' = "Ok"
             /\ pos' < Len(data) => pres' = "run"
       /\ (pc = "from" /\ pos > Len(data)) => builder' = builder /\ pres' = pres]_vars

\* an operator was dispatched and left the lexer past the end of the data
BoundaryCheckWitness ==
    /\ pc = "from"
    /\ pres = "ContentReadPastBoundary"
    /\ pos > Len(data)
    /\ calls # <<>>
    /\ calls[Len(calls)].res = "Ok"

----------------------------------------------------------------------------
(* The serializer *)

\* C6: Close followed by Stroke is written as s, by FillAndStroke as b
\* (NonZero) or b* (EvenOdd), and both operations are consumed; any other
\* Close is written as h and only the Close is consumed.
CloseFolding ==
    [][(pc = "ser" /\ sops # <<>> /\ sops[1] = Close) =>
          IF Len(sops) > 1 /\ sops[2] = Stroke
          THEN sdata' = sdata \o <<"s", "\n">> /\ sops' = Tail(Tail(sops))
          ELSE IF Len(sops) > 1 /\ sops[2] = FillAndStroke("NonZero")
          THEN sdata' = sdata \o <<"b", "\n">> /\ sops' = Tail(Tail(sops))
          ELSE IF Len(sops) > 1 /\ sops[2] = FillAndStroke("EvenOdd")
          THEN sdata' = sdata \o <<"b", "*", "\n">> /\ sops' = Tail(Tail(sops))
          ELSE sdata' = sdata \o <<"h", "\n">> /\ sops' = Tail(sops)]_vars

\* [Close, Stroke] was serialized in one step
CloseFoldingWitness ==
    /\ input = <<Close, Stroke>>
    /\ round = 1
    /\ pc = "ser"
    /\ sops = <<>>
    /\ sadv = 2
    /\ sdata = <<"s", "\n">>

----------------------------------------------------------------------------
(* Inline images *)

MinimalImage ==
    <<"B", "I", " ", "/", "W", " ", "1", " ", "/", "H", " ", "1", " ", "/", "B", "P", "C", " ",
      "8", " ", "/", "C", "S", " ", "/", "G", " ", "/", "F", " ", "/", "F", "l", " ", "I", "D",
      " ", "x", "\n", "E", "I">>

MinimalImageNoHeight ==
    <<"B", "I", " ", "/", "W", " ", "1", " ", "/", "B", "P", "C", " ",
      "8", " ", "/", "C", "S", " ", "/", "G", " ", "/", "F", " ", "/", "F", "l", " ", "I", "D",
      " ", "x", "\n", "E", "I">>

\* C7: the image with only /W 1 /H 1 /BPC 8 /CS /G /F /Fl parses to an
\* InlineImage of width 1, height 1, 8 bits per component, DeviceGray and the
\* single filter FlateDecode; without /H it fails with the missing entry error.
MinimalImageParses ==
    /\ (prim = StreamPrim(MinimalImage) /\ pc \notin {"prim", "from"}) =>
          /\ pc \in {"parsed", "done"}
          /\ Len(content.operations) = 1
          /\ content.operations[1].op = "InlineImage"
          /\ content.operations[1].image.width = 1
          /\ content.operations[1].image.height = 1
          /\ content.operations[1].image.bits_per_component = 8
          /\ content.operations[1].image.color_space = PName(<<"D", "e", "v", "i", "c", "e", "G", "r", "a", "y">>)
          /\ content.operations[1].image.filters = <<"FlateDecode">>
    /\ (prim = StreamPrim(MinimalImageNoHeight) /\ pc \notin {"prim", "from"}) =>
          pc = "failed" /\ pres = MissingEntry("Height")

----------------------------------------------------------------------------
(* Content *)

RECURSIVE Concat(_)
Concat(streams) == IF streams = <<>> THEN <<>> ELSE streams[1] \o Concat(Tail(streams))

\* C9: the operations of a Content built from an array of parts are those of
\* parsing the concatenation of the parts as one stream.
PartsAsConcatenation ==
    (prim.kind = "Array" /\ round = 1 /\ pc \in {"parsed", "failed"}) =>
        /\ pc = "parsed" <=> Parse(NewBuilder, Concat(prim.streams), overshoot).res = "Ok"
        /\ pc = "parsed" =>
              content.operations = Parse(NewBuilder, Concat(prim.streams), overshoot).b.ops

\* C10: from_ops(ops) yields the operations ops and the single part
\* serialize_ops(ops); to_primitive yields the stream of a single part, and an
\* array of the streams of the parts, in order, for any other number of parts.
ContentShape ==
    /\ (pc = "built" /\ round = 1) =>
          content.operations = input /\ content.parts = <<serialize_ops(input)>>
    /\ (pc = "built" /\ round = 2) => content.parts = <<serialize_ops(content.operations)>>
    /\ pc = "done" =>
          IF Len(content.parts) = 1
          THEN prim = [kind |-> "Stream", streams |-> <<content.parts[1]>>]
          ELSE prim = [kind |-> "Array", streams |-> content.parts]

\* the operations parsed from two parts went through from_ops and to_primitive
ContentShapeWitness ==
    /\ pc = "done"
    /\ round = 2
    /\ content.operations # <<>>
    /\ prim = [kind |-> "Stream", streams |-> <<serialize_ops(content.operations)>>]

----------------------------------------------------------------------------
(* The serializer: errors and the forms of CurveTo, Leading, WordSpacing, TextNewline *)

\* C11: serialize_ops returns bytes for every operation sequence without an
\* InlineImage; for a sequence with an InlineImage it faults without
\* returning bytes, and Content::from_ops produces no Content.
SerializerErrorSurface ==
    /\ (round = 1 /\ ~HasInlineImage(input)) =>
          /\ pc # "panic"
          /\ (pc = "ser" /\ sops # <<>>) => SerializeOp(sops, scp).advance >= 1
    /\ (round = 1 /\ HasInlineImage(input)) =>
          /\ pc \in {"ser", "panic"}
          /\ content = NoContent
          /\ first = <<>>
          /\ (pc = "ser" /\ sops # <<>>) => HasInlineImage(sops)

\* the serializer faulted at an InlineImage after it had written another operation
SerializerErrorSurfaceWitness ==
    /\ pc = "panic"
    /\ input = <<Save, InlineImage(OneImage)>>
    /\ sdata = <<"q", "\n">>
    /\ content = NoContent

----------------------------------------------------------------------------
(* The dispatcher: failures *)

\* C12: when the dispatch of an operator fails in any part, from_primitive
\* returns an error and no operation list, whatever was pushed before the
\* failure, by earlier operators or by the failing operator itself.
NoPartialResult ==
    /\ pc \in {"failed", "panic"} => content.st = "err" /\ content.operations = <<>>
    /\ (calls # <<>> /\ calls[Len(calls)].res # "Ok") =>
          /\ pc \in {"from", "failed", "panic"}
          /\ content.st # "ok"
          /\ content.operations = <<>>

\* " failed in the second part after it had pushed WordSpacing, the first part
\* having pushed operations too
NoPartialResultWitness ==
    /\ pc = "failed"
    /\ partIdx = 2
    /\ calls[Len(calls)].op = "\""
    /\ calls[Len(calls)].before.ops # <<>>
    /\ Len(builder.ops) = Len(calls[Len(calls)].before.ops) + 1
    /\ content.operations = <<>>

JoinNames == <<"Miter", "Round", "Bevel">>
CapNames == <<"Butt", "Round", "Square">>
ModeNames == <<"Fill", "Stroke", "FillThenStroke", "Invisible", "FillAndClip", "StrokeAndClip">>
IntentNames == {"AbsoluteColorimetric", "RelativeColorimetric", "Perceptual", "Saturation"}

\* a call that pushed exactly the operation o, or failed and pushed nothing
Accepted(call, ok, o) ==
    IF ok THEN call.res = "Ok" /\ call.after.ops = Append(call.before.ops, o)
    ELSE call.res # "Ok" /\ call.after.ops = call.before.ops

\* C13: j accepts only the codes 0, 1, 2 (Miter, Round, Bevel), J only 0, 1, 2
\* (Butt, Round, Square), Tr only 0..5, ri only a known rendering intent; any
\* other code or name fails the dispatch and emits nothing; the serializer
\* writes the same code back for LineJoin, LineCap and TextRenderMode.
EnumerationCodes ==
    /\ \A i \in 1..Len(calls) :
          LET call == calls[i]
              n == call.args[1].n
          IN  /\ call.op = "j" => Accepted(call, n \in 0..2, LineJoin(JoinNames[n + 1]))
              /\ call.op = "J" => Accepted(call, n \in 0..2, LineCap(CapNames[n + 1]))
              /\ call.op = "Tr" => Accepted(call, n \in 0..5, TextRenderMode(ModeNames[n + 1]))
              /\ call.op = "ri" =>
                    Accepted(call, Str(call.args[1].s) \in IntentNames, RenderingIntent(call.args[1].s))
    /\ (round = 2 /\ pc = "built" /\ \A i \in 1..Len(calls) : calls[i].op \in {"j", "J", "Tr"}) =>
          sdata = prim.streams[1]

\* "2 j" and "5 Tr" were dispatched and serialized back
EnumerationCodesWitness ==
    /\ round = 2
    /\ pc = "built"
    /\ content.operations = <<LineJoin("Bevel"), TextRenderMode("StrokeAndClip")>>
    /\ sdata = <<"2", " ", "j", "\n", "5", " ", "T", "r", "\n">>

\* C14: ID or EI dispatched as an operator fails the parse in every state of
\* the dispatcher, the compatibility section included.
FramingOperators ==
    \A i \in 1..Len(calls) :
        calls[i].op \in {"ID", "EI"} =>
            /\ calls[i].res # "Ok"
            /\ calls[i].after = calls[i].before
            /\ i = Len(calls)
            /\ pres \notin {"idle", "run", "Ok"}
            /\ content.st # "ok"

\* ID was dispatched inside a compatibility section and the parse failed
FramingOperatorsWitness ==
    /\ pc = "failed"
    /\ calls[Len(calls)].op = "ID"
    /\ calls[Len(calls)].before.compability_section

----------------------------------------------------------------------------
(* The serializer: the forms of CurveTo and the fold of Leading *)

\* the operations of the input the serializer has consumed
Consumed == SubSeq(input, 1, Len(input) - Len(sops))

\* the point of the last MoveTo, LineTo or CurveTo of ops, None when there is none
RECURSIVE LastPathPoint(_)
LastPathPoint(ops) ==
    IF ops = <<>> THEN None
    ELSE IF ops[Len(ops)].op \in {"MoveTo", "LineTo", "CurveTo"} THEN ops[Len(ops)].p
    ELSE LastPathPoint(SubSeq(ops, 1, Len(ops) - 1))

Pt(p) == NumChars(p[1]) \o <<" ">> \o NumChars(p[2])

\* C15: a CurveTo whose c1 is the point of the last serialized MoveTo, LineTo
\* or CurveTo is written as "c2 p v"; otherwise one whose c2 is p is written
\* as "c1 p y"; otherwise it is written as "c1 c2 p c".
CurveForms ==
    [][(round = 1 /\ pc = "ser" /\ sops # <<>> /\ sops[1].op = "CurveTo") =>
          /\ sops' = Tail(sops)
          /\ sdata' = sdata \o
                 (IF PointEq(sops[1].c1, LastPathPoint(Consumed))
                  THEN Pt(sops[1].c2) \o <<" ">> \o Pt(sops[1].p) \o <<" ", "v", "\n">>
                  ELSE IF PointEq(sops[1].c2, sops[1].p)
                  THEN Pt(sops[1].c1) \o <<" ">> \o Pt(sops[1].p) \o <<" ", "y", "\n">>
                  ELSE Pt(sops[1].c1) \o <<" ">> \o Pt(sops[1].c2) \o <<" ">> \o Pt(sops[1].p)
                           \o <<" ", "c", "\n">>)]_vars

\* C16: Leading followed by MoveTextPosition with leading = -translation.x is
\* written as "translation.x translation.y TD" and both are consumed; any
\* other Leading is written alone as "leading TL".
LeadingFold ==
    [][(pc = "ser" /\ sops # <<>> /\ sops[1].op = "Leading") =>
          IF Len(sops) > 1 /\ sops[2].op = "MoveTextPosition"
                 /\ F32Eq(sops[1].leading, F32Neg(sops[2].translation[1]))
          THEN /\ sdata' = sdata \o Pt(sops[2].translation) \o <<" ", "T", "D", "\n">>
               /\ sops' = Tail(Tail(sops))
          ELSE /\ sdata' = sdata \o NumChars(sops[1].leading) \o <<" ", "T", "L", "\n">>
               /\ sops' = Tail(sops)]_vars

\* [Leading -1, MoveTextPosition (1, 2)] was written as one TD
LeadingFoldWitness ==
    /\ input = <<Leading(-1), MoveTextPosition(Point(1, 2))>>
    /\ round = 1
    /\ pc = "ser"
    /\ sops = <<>>
    /\ sadv = 2
    /\ sdata = <<"1", " ", "2", " ", "T", "D", "\n">>

\* C17: the TD the serializer writes for a pair [Leading, MoveTextPosition] is
\* dispatched to that pair, and the pair the dispatcher emits for "tx ty TD"
\* is serialized as that TD.
TDFoldSound ==
    /\ (round = 1 /\ pc = "parsed" /\ Len(input) = 2 /\ Len(calls) = 1 /\ calls[1].op = "TD") =>
          content.operations = input
    /\ (round = 2 /\ pc = "built" /\ Len(calls) = 1 /\ calls[1].op = "TD") => sdata = first

\* C18: at each CurveTo the serializer reaches, its current_point is unset or
\* is the last point of a fresh OpBuilder that has parsed the bytes written so
\* far; and a CurveTo with c1 = (0,0) before any path point is reproduced.
CurrentPointAgreement ==
    /\ (round = 1 /\ pc = "ser" /\ sops # <<>> /\ sops[1].op = "CurveTo" /\ scp # None) =>
          /\ Parse(NewBuilder, sdata, FALSE).res = "Ok"
          /\ PointEq(Parse(NewBuilder, sdata, FALSE).b.last, scp)
    /\ (round = 1 /\ pc = "parsed" /\ Len(input) = 1 /\ input[1].op = "CurveTo"
            /\ input[1].c1 = Point(0, 0)) => content.operations = input

----------------------------------------------------------------------------
(* The serializer: the folds of WordSpacing and TextNewline *)

Quoted(text) == <<"(">> \o text \o <<")">>

\* the input holds text operations only
TextOnly == \A i \in 1..Len(input) : input[i] \in TextOps

\* C19: WordSpacing followed by CharSpacing, TextNewline, TextDraw is written
\* as 'word_space char_space text "' and the four operations are consumed;
\* any other WordSpacing is written alone as Tw; the " that was written is
\* dispatched to the four operations, in order, with the same values.
WordSpacingFold ==
    /\ [][(pc = "ser" /\ sops # <<>> /\ sops[1].op = "WordSpacing") =>
             IF Len(sops) >= 4 /\ sops[2].op = "CharSpacing" /\ sops[3].op = "TextNewline"
                    /\ sops[4].op = "TextDraw"
             THEN /\ sdata' = sdata \o NumChars(sops[1].word_space) \o <<" ">>
                                  \o NumChars(sops[2].char_space) \o <<" ">>
                                  \o Quoted(sops[4].text) \o <<" ", "\"", "\n">>
                  /\ sops' = SubSeq(sops, 5, Len(sops))
             ELSE /\ sdata' = sdata \o NumChars(sops[1].word_space) \o <<" ", "T", "w", "\n">>
                  /\ sops' = Tail(sops)]_vars
    /\ []((round = 1 /\ TextOnly) =>
             /\ pc # "failed"
             /\ pc = "parsed" => content.operations = input
             /\ \A i \in 1..Len(calls) :
                   calls[i].op = "\"" =>
                       calls[i].after.ops =
                           calls[i].before.ops \o
                               <<WordSpacing(calls[i].args[1].n), CharSpacing(calls[i].args[2].n),
                                 TextNewline, TextDraw(calls[i].args[3].s)>>)

\* the four operations were written as one " and parsed back
WordSpacingFoldWitness ==
    /\ input = <<WordSpacing(1), CharSpacing(2), TextNewline, TextDraw(NameA)>>
    /\ pc = "parsed"
    /\ first = <<"1", " ", "2", " ", "(", "a", ")", " ", "\"", "\n">>
    /\ Len(calls) = 1
    /\ content.operations = input

\* the number of operations of ops that are TextNewline
RECURSIVE Newlines(_)
Newlines(ops) ==
    IF ops = <<>> THEN 0
    ELSE (IF ops[1].op = "TextNewline" THEN 1 ELSE 0) + Newlines(Tail(ops))

\* the number of the calls that are ", ' or T*
RECURSIVE NewlineCalls(_)
NewlineCalls(cs) ==
    IF cs = <<>> THEN 0
    ELSE (IF cs[1].op \in {"\"", "'", "T*"} THEN 1 ELSE 0) + NewlineCalls(Tail(cs))

\* C20: TextNewline followed by TextDraw is written as "text '" and both are
\* consumed; any other TextNewline is written alone as T*; a TextNewline
\* consumed by the fold of WordSpacing is not written again, so the bytes hold
\* one of ", ' and T* for each TextNewline.
TextNewlineFold ==
    /\ [][(pc = "ser" /\ sops # <<>> /\ sops[1].op = "TextNewline") =>
             IF Len(sops) >= 2 /\ sops[2].op = "TextDraw"
             THEN /\ sdata' = sdata \o Quoted(sops[2].text) \o <<" ", "'", "\n">>
                  /\ sops' = Tail(Tail(sops))
             ELSE /\ sdata' = sdata \o <<"T", "*", "\n">>
                  /\ sops' = Tail(sops)]_vars
    /\ []((round = 1 /\ pc = "parsed" /\ TextOnly) => NewlineCalls(calls) = Newlines(input))

\* a TextNewline folded with TextDraw, one inside the fold of WordSpacing
\* and one written alone
TextNewlineFoldWitness ==
    /\ pc = "parsed"
    /\ Newlines(input) = 2
    /\ \E i, j \in 1..Len(calls) : calls[i].op = "'" /\ calls[j].op = "T*"
    /\ content.operations = input

----------------------------------------------------------------------------
(* The dispatcher: operations pushed by each operator *)

\* the operators the dispatcher turns into more than one operation
Expanding == {"s", "b", "b*", "'", "\"", "TD"}

\* the operations the call pushed at the end of the list
Pushed(call) == SubSeq(call.after.ops, Len(call.before.ops) + 1, Len(call.after.ops))

\* C21: a successful dispatch of a recognised operator other than BX, EX and
\* the expanding ones appends exactly one operation; s appends Close, Stroke;
\* b and b* append Close, FillAndStroke; ' appends TextNewline, TextDraw; "
\* appends WordSpacing, CharSpacing, TextNewline, TextDraw; all at the end
\* of the list.
OperationsPerOperator ==
    \A i \in 1..Len(calls) :
        LET call == calls[i]
        IN  (call.res = "Ok" /\ call.op \in Mnemonics) =>
                /\ SubSeq(call.after.ops, 1, Len(call.before.ops)) = call.before.ops
                /\ call.op \notin (Expanding \cup {"BX", "EX"}) => Len(Pushed(call)) = 1
                /\ call.op = "s" => Pushed(call) = <<Close, Stroke>>
                /\ call.op = "b" => Pushed(call) = <<Close, FillAndStroke("NonZero")>>
                /\ call.op = "b*" => Pushed(call) = <<Close, FillAndStroke("EvenOdd")>>
                /\ call.op = "'" => Pushed(call) = <<TextNewline, TextDraw(call.args[1].s)>>
                /\ call.op = "\"" =>
                      Pushed(call) = <<WordSpacing(call.args[1].n), CharSpacing(call.args[2].n),
                                       TextNewline, TextDraw(call.args[3].s)>>

----------------------------------------------------------------------------
(* The dispatcher: the operand buffer *)

\* the operators that take as many operands as there are
TakesAll == {"SC", "SCN", "sc", "scn"}

\* the call with the operands beyond the arity of its operator left out
Trimmed(call) ==
    Add(call.before, call.op, SubSeq(call.args, 1, Arity(call.op)), <<>>, 0, FALSE)

\* C22: an operator is dispatched with exactly the operands parsed since the
\* operator before it in the same stream, in order; the buffer is empty after
\* the dispatch and at the start of every stream; operands beyond the arity
\* of the operator are discarded without error.
BufferDiscipline ==
    /\ [][(pc = "from" /\ pres = "run") =>
             IF Len(calls') = Len(calls) + 1
             THEN /\ calls'[Len(calls')].args = buffer
                  /\ buffer' = <<>>
             ELSE /\ calls' = calls
                  /\ Len(buffer') \in {Len(buffer), Len(buffer) + 1}
                  /\ SubSeq(buffer', 1, Len(buffer)) = buffer]_vars
    /\ [][partIdx' # partIdx => buffer' = <<>>]_vars
    /\ [](\A i \in 1..Len(calls) :
             (calls[i].op \in Mnemonics \ (TakesAll \cup {"BI"})
                  /\ Len(calls[i].args) > Arity(calls[i].op)) =>
                 /\ calls[i].res = Trimmed(calls[i]).res
                 /\ calls[i].after = Trimmed(calls[i]).b)

\* "7 " and "1 w", "7 1 w" in two streams: the 7 of the first stream is not
\* an operand of the first w, and the second w takes 7 and discards 1
BufferDisciplineWitness ==
    /\ pc = "parsed"
    /\ Len(prim.streams) = 2
    /\ prim.streams[1] = <<"7", " ">>
    /\ Len(calls) = 2
    /\ calls[1].op = "w" /\ Len(calls[1].args) = 1 /\ calls[1].args[1].n = 1
    /\ calls[2].op = "w" /\ Len(calls[2].args) = 2 /\ calls[2].res = "Ok"
    /\ content.operations = <<LineWidth(1), LineWidth(7)>>
    /\ buffer = <<>>

----------------------------------------------------------------------------
(* Inline images: the keys *)

\* the keys of ImagePairs, expanded
PairNames ==
    <<"Width", "Height", "BitsPerComponent", "ColorSpace", "Filter", "Decode", "DecodeParms">>

AllPairs == 1..Len(ImagePairs)

\* from_primitive has returned
Returned == pc \in {"parsed", "failed", "panic", "done"}

\* Filter values that are no name and no array of names, each with the error
\* of inline_image: that of the first element that fails
BadFilters ==
    <<<<<<"1">>, "Other">>, <<<<"(", "a", ")">>, "Other">>,
      <<<<"[", "1", "]">>, "UnexpectedPrimitive">>,
      <<<<"[", "/", "Z", " ", "1", "]">>, "Other">>,
      <<<<"[", "1", " ", "/", "Z", "]">>, "UnexpectedPrimitive">>,
      <<<<"[", "/", "F", "l", " ", "/", "Z", " ", "1", "]">>, "Other">>>>

\* C23: BitsPerComponent, ColorSpace, Decode, DecodeParms, Filter, Height and
\* Width are each required: an image without one of them fails with the
\* missing entry error of a key that is absent; with all of them it parses,
\* ImageMask and Interpolate false and Intent unset; a Filter that is neither
\* a name nor an array of names fails.
ImageKeysRequired ==
    /\ \A keys \in SUBSET AllPairs :
          (Returned /\ prim.streams[1] \in {ImageBytes(keys), ImageBytes(keys) \o <<"\n", "Q", "\n">>}) =>
              IF keys = AllPairs
              THEN /\ pc \in {"parsed", "done"}
                   /\ content.operations[1].op = "InlineImage"
                   /\ content.operations[1].image.image_mask = FALSE
                   /\ content.operations[1].image.interpolate = FALSE
                   /\ content.operations[1].image.intent = NoPrimitive
              ELSE /\ pc = "failed"
                   /\ pres \in {MissingEntry(PairNames[i]) : i \in AllPairs \ keys}
    /\ \A i \in 1..Len(BadFilters) :
          (Returned /\ prim.streams[1] = ImageWithFilter(BadFilters[i][1])) =>
              pc = "failed" /\ pres = BadFilters[i][2]
    /\ (Returned /\ prim.streams[1] = ImageWithFilter(<<"[", "/", "F", "l", "]">>)) =>
          /\ pc \in {"parsed", "done"}
          /\ content.operations[1].image.filters = <<"FlateDecode">>

\* the image with every key but Width has failed on Width, the last field read
ImageKeysRequiredWitness ==
    /\ prim.streams[1] = ImageBytes(AllPairs \ {1})
    /\ pc = "failed"
    /\ pres = MissingEntry("Width")
    /\ Len(calls) = 1
    /\ calls[1].op = "BI"

----------------------------------------------------------------------------
(* Inline images: the payload *)

\* the offsets at or after p where newline, E, I stand
Markers(d, p) == {k \in p..(Len(d) - 3) : d[k + 1] = "\n" /\ d[k + 2] = "E" /\ d[k + 3] = "I"}

\* the first of them
FirstMarker(d, p) == CHOOSE k \in Markers(d, p) : \A j \in Markers(d, p) : k <= j

\* the operations of what follows the end marker
TrailerOps(t) == IF t = <<>> THEN <<>> ELSE <<Restore>>

\* C24: the payload of an inline image is the bytes from one byte after ID up
\* to the first newline, E, I at or after the end of ID; the lexer is then
\* just past that marker, the dispatcher goes on with the token after it and
\* no byte of the payload is read as a token.
ImagePayloadBounds ==
    \A b \in PayloadBytes \ {<<>>} :
        \A t \in Trailers :
            (prim.streams[1] = ImageWithPayload(b, t) /\ Len(calls) >= 1) =>
                LET d == prim.streams[1]
                    ei == FirstMarker(d, Len(ImageHead))
                IN  /\ calls[1].op = "BI"
                    /\ calls[1].res = "Ok"
                    /\ calls[1].after.ops[1].image.data = SubSeq(d, Len(ImageHead) + 2, ei)
                    /\ Len(calls) = 1 => pos = ei + 3
                    /\ Len(calls) >= 2 => calls[2].op = Str(SubSeq(d, ei + 5, ei + 5))
                    /\ (Returned /\ ei = Len(ImageHead) + Len(b)) =>
                          /\ pc \in {"parsed", "done"}
                          /\ content.operations =
                                <<InlineImage(calls[1].after.ops[1].image)>> \o TrailerOps(t)

\* "ID x 1 q", the end marker and Q: the payload is "x 1 q" and Q follows
ImagePayloadBoundsWitness ==
    /\ prim.streams[1] = ImageWithPayload(<<" ", "x", " ", "1", " ", "q">>, <<"\n", "Q", "\n">>)
    /\ pc = "parsed"
    /\ Len(content.operations) = 2
    /\ content.operations[1].image.data = <<"x", " ", "1", " ", "q">>
    /\ content.operations[2] = Restore

----------------------------------------------------------------------------
(* Inline images: the loop over the keys *)

\* how from_primitive ends on each stream of KeyLoopStreams
KeyLoopOutcomes ==
    <<"EOF", "EOF", "ParseError", "Other", "Other", "UnexpectedLexeme",
      MissingEntry("BitsPerComponent"), "EOF">>

\* C25: the loop reads a key, a name, then its value.  The end of the input
\* in place of a key, a key that is no name and a value that cannot be parsed
\* are fatal; a key that cannot be parsed for another reason ends the loop
\* with the lexer where that key began, and the word there must be ID.
ImageKeyLoop ==
    /\ \A i \in 1..Len(KeyLoopStreams) :
          (prim.streams[1] = KeyLoopStreams[i] /\ Returned) =>
              /\ pc = "failed"
              /\ pres = KeyLoopOutcomes[i]
              /\ Len(calls) = 1
              /\ calls[1].op = "BI"
    /\ \A b \in PayloadBytes \ {<<>>} :
          (prim.streams[1] = ImageWithPayload(b, <<>>) /\ Len(calls) >= 1) =>
              /\ calls[1].res = "Ok"
              /\ calls[1].after.ops[1].image.width = 1
              /\ calls[1].after.ops[1].image.bits_per_component = 8

\* the loop ended at q, which is not ID
ImageKeyLoopWitness ==
    /\ prim.streams[1] = KeyLoopStreams[6]
    /\ pc = "failed"
    /\ pres = "UnexpectedLexeme"

----------------------------------------------------------------------------
(* The serializer: progress *)

\* the operations serialize_ops was called on
Serialized == IF round = 1 THEN input ELSE content.operations

\* C26: on a sequence without an inline image serialize_ops terminates; a
\* step consumes at least one and at most four operations, never more than
\* remain; the operations not yet consumed are a suffix of the input, so each
\* operation is consumed by one step, in order.
SerializerProgress ==
    /\ [][(pc = "ser" /\ sops # <<>> /\ sops[1].op # "InlineImage") =>
             /\ sadv' \in 1..4
             /\ sadv' <= Len(sops)
             /\ sops' = SubSeq(sops, sadv' + 1, Len(sops))
             /\ Len(sdata') > Len(sdata)]_vars
    /\ [](pc = "ser" =>
             sops = SubSeq(Serialized, Len(Serialized) - Len(sops) + 1, Len(Serialized)))
    /\ ((pc = "ser" /\ ~HasInlineImage(sops)) ~> (pc = "built"))

\* the last step consumed the four operations that remained
SerializerProgressWitness ==
    /\ pc = "built"
    /\ round = 1
    /\ Len(input) = 4
    /\ sadv = 4
    /\ sops = <<>>

----------------------------------------------------------------------------
(* The serializer: delimiters *)

\* C27: on a sequence without an inline image every mnemonic serialize_ops
\* has written is followed by whitespace before the bytes of the next step,
\* the d of Dash included, so no two tokens merge.
TokenDelimiting ==
    (pc = "ser" /\ sops # <<>> /\ sdata # <<>> /\ ~HasInlineImage(Serialized)) =>
        sdata[Len(sdata)] \in Whitespace

----------------------------------------------------------------------------
(* Independent streams *)

\* what parsing the stream d alone returns
Alone(d) ==
    LET r == Parse(NewBuilder, d, FALSE)
    IN  IF r.res = "Ok" THEN [st |-> "ok", operations |-> r.b.ops]
        ELSE [st |-> r.res, operations |-> <<>>]

\* C28: two workers, each with a lexer and an OpBuilder of its own, return
\* for each stream what parsing that stream alone returns, in whatever order
\* their steps are taken; a step of one worker leaves the buffer, the last
\* point, the flag and the operations of the other as they were, and its
\* outcome is that of the same step taken alone.
StreamsIndependent ==
    /\ [](\A w \in Workers :
             workers[w].form # NoForm => workers[w].form = Alone(workers[w].data))
    /\ [][\A w \in Workers :
             workers'[w] # workers[w] =>
                 /\ workers'[3 - w] = workers[3 - w]
                 /\ workers'[w] \in {WorkerNext(workers[w]),
                                     [workers[w] EXCEPT !.form = WorkerForm(workers[w])]}]_vars

\* one worker has entered a compatibility section and moved the last point;
\* the other has returned the error of zz outside a section
StreamsIndependentWitness ==
    /\ workers[1].data = Lines(<<<<<<"B", "X">>>>, <<Num(1), Num(2), <<"m">>>>>>)
    /\ workers[2].data = Lines(<<<<<<"z", "z">>>>>>)
    /\ workers[1].form.st = "ok"
    /\ workers[1].builder.compability_section
    /\ workers[2].form.st = "Other"

====
